---- MODULE Spec2Model ----
(***************************************************************************)
(* Survey-analytics pipeline of the DIOR dashboard (analisis_dior.py):     *)
(* response encoding, dimension aggregation, band classification, the      *)
(* top-level entry point ejecutar_analisis_completo, the cluster profiler  *)
(* and the role comparator.                                                *)
(*                                                                         *)
(* Averages are exact rationals [num, den]; den = 0 stands for NaN (the    *)
(* mean of an empty selection).  Binary floating-point rounding of pandas  *)
(* means is not modelled.                                                  *)
(***************************************************************************)
EXTENDS Integers, Sequences, FiniteSets, TLC

VARIABLES
    df_datos,     \* dataset handed to the entry point (None or a DataFrame)
    n_clusters,   \* requested cluster count
    pc,           \* position of the running call
    df_prep,      \* encoded working copy
    resultados,   \* result dict built so far (function from keys)
    pasos,        \* analysis steps that ran to completion, in order
    figuras,      \* dict returned by generar_visualizaciones
    excepcion,    \* name of the exception that left the call, or "" if none
    interpretados, \* calls of interpretar_promedio made so far: [valor, banda]
    pantalla,     \* what the page has displayed since the analysis began, in order
    memoria,      \* objects (frames, columns, dicts) by the name that refers to them
    llamadas      \* calls of obtener_letra_a_indice made so far: [letra, indice]

vars == <<df_datos, n_clusters, pc, df_prep, resultados, pasos, figuras,
          excepcion, interpretados, pantalla, memoria, llamadas>>

-----------------------------------------------------------------------------
(* Bounds of the model *)

MaxRows == 2
MaxCols == 2
\* scores handed to interpretar_promedio are the quarters -2/4 .. MaxCuartos/4
MaxCuartos == 14
\* rows of a dataset handed to the role comparison
MaxFilasRol == 6
\* rows of a dataset that lacks a required column
MaxFilasIncompleto == 1
\* rows of a dataset handed to the cluster profiler, and largest cluster count
MaxFilasClusters == 3
MaxK == 3
\* rows of the largest dataset whose first respondent may leave blanks
MaxFilasConBlancos == 2

-----------------------------------------------------------------------------
(* Cells of a DataFrame: a string, an integer or NaN (missing) *)

NaN == [t |-> "nan", s |-> "", n |-> 0]
StrCell(s) == [t |-> "str", s |-> s, n |-> 0]
IntCell(n) == [t |-> "int", s |-> "", n |-> n]
\* outcome of a cell conversion that raises
ErrCell(e) == [t |-> "err", s |-> e, n |-> 0]

-----------------------------------------------------------------------------
(* Exact rational arithmetic for means *)

RECURSIVE GCD(_, _)
GCD(a, b) == IF b = 0 THEN a ELSE GCD(b, a % b)

Abs(x) == IF x < 0 THEN -x ELSE x

RNaN == [num |-> 0, den |-> 0]
Rat(n, d) ==
    IF d = 0 THEN RNaN
    ELSE LET g == GCD(Abs(n), Abs(d))
             sg == IF d < 0 THEN -1 ELSE 1
         IN [num |-> sg * (n \div g), den |-> sg * (d \div g)]

IsNaN(a) == a.den = 0
RAdd(a, b) == IF IsNaN(a) \/ IsNaN(b) THEN RNaN
              ELSE Rat(a.num * b.den + b.num * a.den, a.den * b.den)
RSub(a, b) == IF IsNaN(a) \/ IsNaN(b) THEN RNaN
              ELSE Rat(a.num * b.den - b.num * a.den, a.den * b.den)
RAbs(a) == [num |-> Abs(a.num), den |-> a.den]
RDivInt(a, k) == IF IsNaN(a) \/ k = 0 THEN RNaN ELSE Rat(a.num, a.den * k)
\* comparisons follow IEEE semantics: any comparison with NaN is false
RLt(a, b) == ~IsNaN(a) /\ ~IsNaN(b) /\ a.num * b.den < b.num * a.den
RLe(a, b) == ~IsNaN(a) /\ ~IsNaN(b) /\ a.num * b.den <= b.num * a.den
REq(a, b) == ~IsNaN(a) /\ ~IsNaN(b) /\ a.num * b.den = b.num * a.den

RECURSIVE RSumSeq(_)
RSumSeq(s) == IF s = <<>> THEN Rat(0, 1) ELSE RAdd(Head(s), RSumSeq(Tail(s)))

\* Series.mean(): NaN entries are skipped; the mean of nothing is NaN
SinNaN(s) == LET presente(a) == ~IsNaN(a) IN SelectSeq(s, presente)

Mean(s) == LET v == SinNaN(s) IN RDivInt(RSumSeq(v), Len(v))

-----------------------------------------------------------------------------
(* Configuration of analisis_dior.py *)

\* variant: the 5-point vocabulary of config.py used in place of the 3-point one
MAPEO_RESPUESTAS_CincoPuntos ==
    ("TOTALMENTE EN DESACUERDO" :> 1) @@
    ("EN DESACUERDO" :> 2) @@
    ("NI DE ACUERDO NI DESACUERDO" :> 3) @@
    ("DE ACUERDO" :> 4) @@
    ("TOTALMENTE DE ACUERDO" :> 5)

MAPEO_RESPUESTAS ==
    ("DE ACUERDO" :> 3) @@
    ("NI DEACUERDO, NI EN DESACUERDO" :> 2) @@
    ("EN DESACUERDO" :> 1)

\* insertion order of the DIMENSIONES dict
DIMENSIONES_ORDEN ==
    <<"Trabajo en equipo", "Liderazgo", "Compromiso", "Valoración",
      "Comunicación", "Recursos y condiciones", "Bienestar">>

DIMENSIONES ==
    ("Trabajo en equipo" :>
        <<"1.1_A_GUSTO_TRABAJANDO_CON_OTRAS_GESTORAS",
          "1.2_LIBRE_EXPRESAR_IDEAS_SUGERENCIAS",
          "1.3_DECISIONES_IMPORTANTES_COMUNICADAS",
          "1.4_CONVERSACIONES_RESPETUOSAS">>) @@
    ("Liderazgo" :>
        <<"2.1_LIDERAZGO_RESPESTUOSO",
          "2.2_OPORTUNIDAD_DE_PROPONER_IDEAS",
          "2.3_ESPACIOS_ADECUADOS_RETROALIMENTACION">>) @@
    ("Compromiso" :>
        <<"3.1_GESTORAS_COMPROMETIDAS",
          "3.2_EQUIPO_UNIDO",
          "3.3_NORMAS_DE_SEGURIDAD_DOTACION">>) @@
    ("Valoración" :>
        <<"4.1_LABOR_VALORADA",
          "4.2_ESFUERZO_IGUAL_DE_VALORADO",
          "4.3_HABILIDADES_RECONOCIDAS">>) @@
    ("Comunicación" :>
        <<"5.1_DIALOGO_CON_RESPETO",
          "5.2_OPINION_TENIDA_EN_CUENTA",
          "5.3_EMOCIONES_TOMADES_ENSERIO">>) @@
    ("Recursos y condiciones" :>
        <<"6.1_INSUMOS_HERRAMIENTAS_NECESARIAS",
          "6.2_ESPACIO_COMODO_SEGURO",
          "6.3_AUSENCIA_POR_URGENCIA">>) @@
    ("Bienestar" :>
        <<"7.1_MOMENTOS_DE_PAUSA",
          "7.2_AUTOCUIDADO",
          "7.3_ESPACIOS_PARA_ALEGRIA",
          "7.4_TIEMPO_OBLIGACIONES_FAMILIARES">>)

Range(s) == {s[i] : i \in DOMAIN s}

\* every question column named by some dimension
TodasPreguntasConfig == UNION {Range(DIMENSIONES[d]) : d \in DOMAIN DIMENSIONES}

-----------------------------------------------------------------------------
(* DataFrames: a set of column names and a sequence of rows, each row a    *)
(* function from the column names to cells.  None is the absent dataset.   *)

None == [none |-> TRUE, cols |-> {}, rows |-> <<>>]
DF(cols, rows) == [none |-> FALSE, cols |-> cols, rows |-> rows]

\* variant: emptiness judged by the row count alone (len(df) == 0)
Empty_SoloFilas(df) == df.rows = <<>>

\* DataFrame.empty: some axis has length 0
Empty(df) == df.cols = {} \/ df.rows = <<>>

\* df[col] as a sequence of cells
Columna(df, col) == [i \in DOMAIN df.rows |-> df.rows[i][col]]

\* df[mask]: the rows whose index satisfies the mask, in order
RECURSIVE FiltrarDesde(_, _, _)
FiltrarDesde(rows, mask, i) ==
    IF i > Len(rows) THEN <<>>
    ELSE IF mask[i] THEN <<rows[i]>> \o FiltrarDesde(rows, mask, i + 1)
    ELSE FiltrarDesde(rows, mask, i + 1)

Filtrar(df, mask) == DF(df.cols, FiltrarDesde(df.rows, mask, 1))

\* a list comprehension [p for p in seq if p in cols]
Existentes(seq, cols) ==
    LET existe(p) == p \in cols IN SelectSeq(seq, existe)

\* numeric value of an encoded cell as a rational (NaN for a missing cell)
Num(c) == IF c.t = "int" THEN Rat(c.n, 1) ELSE RNaN

-----------------------------------------------------------------------------
(* Response Encoder *)

\* Series.map(dict): values that are not keys of the dict become NaN
MapDict(c, m) == IF c.t = "str" /\ c.s \in DOMAIN m THEN IntCell(m[c.s]) ELSE NaN

\* variant: missing values are left in place
FillNa_Omitido(c, v) == c

FillNa(c, v) == IF c.t = "nan" THEN IntCell(v) ELSE c

\* astype(int) raises on anything that is not a number
AstypeInt(c) == IF c.t = "int" THEN c ELSE ErrCell("ValueError")

\* variant: the fillna(0) step is left out, so astype(int) meets NaN
EncodeCell_SinFillna(c) == AstypeInt(MapDict(c, MAPEO_RESPUESTAS))

EncodeCell(c) == AstypeInt(FillNa(MapDict(c, MAPEO_RESPUESTAS), 0))

preparar_datos(df) ==
    IF df.none \/ Empty(df) THEN None
    ELSE DF(df.cols,
            [i \in DOMAIN df.rows |->
                [c \in df.cols |->
                    IF c \in TodasPreguntasConfig
                    THEN EncodeCell(df.rows[i][c])
                    ELSE df.rows[i][c]]])

\* a conversion raised somewhere in the frame
Raised(df) == \E i \in DOMAIN df.rows : \E c \in df.cols : df.rows[i][c].t = "err"

-----------------------------------------------------------------------------
(* Dimension Aggregator *)

\* df[cols].mean(axis=1): per-row mean over the given columns
MeanAxis1(df, cols) ==
    [i \in DOMAIN df.rows |->
        Mean([j \in DOMAIN cols |-> Num(df.rows[i][cols[j]])])]

\* variant: the row mean divides by every configured column, so an absent
\* column counts as 0
PromedioDimension_AusentesCero(df, preguntas) ==
    LET cols == Existentes(preguntas, df.cols)
    IN Mean([i \in DOMAIN df.rows |->
                RDivInt(RSumSeq([j \in DOMAIN cols |-> Num(df.rows[i][cols[j]])]),
                        Len(preguntas))])

PromedioDimension(df, preguntas) ==
    Mean(MeanAxis1(df, Existentes(preguntas, df.cols)))

\* variant: every configured dimension gets an entry
DimensionesPresentes_Todas(df) == DOMAIN DIMENSIONES

DimensionesPresentes(df) ==
    {d \in DOMAIN DIMENSIONES : Existentes(DIMENSIONES[d], df.cols) # <<>>}

calcular_promedios_por_dimension(df) ==
    [d \in DimensionesPresentes(df) |-> PromedioDimension(df, DIMENSIONES[d])]

\* variant: the band boundaries are resolved downwards (<= instead of <)
interpretar_promedio_LimiteAbajo(valor) ==
    IF RLe(valor, Rat(3, 2)) THEN "Desfavorable"
    ELSE IF RLe(valor, Rat(5, 2)) THEN "Neutral"
    ELSE "Favorable"

interpretar_promedio(valor) ==
    IF RLt(valor, Rat(3, 2)) THEN "Desfavorable"
    ELSE IF RLt(valor, Rat(5, 2)) THEN "Neutral"
    ELSE "Favorable"

-----------------------------------------------------------------------------
(* Small helpers over sequences of cells *)

RECURSIVE Contar(_, _)
Contar(s, v) == IF s = <<>> THEN 0
                ELSE (IF Head(s) = v THEN 1 ELSE 0) + Contar(Tail(s), v)

\* Series.dropna()
RECURSIVE DropNa(_)
DropNa(s) == IF s = <<>> THEN <<>>
             ELSE IF Head(s).t = "nan" THEN DropNa(Tail(s))
             ELSE <<Head(s)>> \o DropNa(Tail(s))

\* Series.value_counts(): count of every non-missing value
ValueCounts(s) == LET v == DropNa(s) IN [x \in Range(v) |-> Contar(v, x)]

\* Series.nunique(): number of distinct non-missing values
NUnique(s) == Cardinality(Range(DropNa(s)))

RECURSIVE Concatenar(_)
Concatenar(ss) == IF ss = <<>> THEN <<>> ELSE Head(ss) \o Concatenar(Tail(ss))

\* stable sort by the field Promedio, highest first (ties keep input order)
RECURSIVE InsertarDesc(_, _)
InsertarDesc(s, x) ==
    IF s = <<>> THEN <<x>>
    ELSE IF RLt(Head(s).Promedio, x.Promedio) THEN <<x>> \o s
    ELSE <<Head(s)>> \o InsertarDesc(Tail(s), x)

RECURSIVE OrdenarDescAcc(_, _)
OrdenarDescAcc(s, acc) ==
    IF s = <<>> THEN acc ELSE OrdenarDescAcc(Tail(s), InsertarDesc(acc, Head(s)))

\* variant: the items are left in dict order
OrdenarDesc_SinOrdenar(s) == s

OrdenarDesc(s) == OrdenarDescAcc(s, <<>>)

\* the question columns of the frame, in configuration order
TodasPreguntas(df) ==
    Concatenar([k \in DOMAIN DIMENSIONES_ORDEN |->
                    Existentes(DIMENSIONES[DIMENSIONES_ORDEN[k]], df.cols)])

-----------------------------------------------------------------------------
(* 3.1 Descriptive analysis *)

analisis_descriptivo(df, dfp) ==
    LET respuestas_todas ==
            Concatenar([k \in DOMAIN TodasPreguntas(dfp) |->
                            DropNa(Columna(dfp, TodasPreguntas(dfp)[k]))])
        total == IF "NOMBRE_COMEDOR" \in df.cols
                 THEN NUnique(Columna(df, "NOMBRE_COMEDOR"))
                 ELSE Len(df.rows)
        demo(col, key) == IF col \in df.cols
                          THEN (key :> ValueCounts(Columna(df, col)))
                          ELSE <<>>
        dist == IF respuestas_todas # <<>>
                THEN ("distribucion_respuestas" :> ValueCounts(respuestas_todas))
                ELSE <<>>
    IN ("total_comedores" :> total)
       @@ demo("COMUNA", "distribucion_comunas")
       @@ demo("NODO", "distribucion_nodos")
       @@ demo("NICHO", "distribucion_nichos")
       @@ dist

-----------------------------------------------------------------------------
(* 3.2 Analysis by dimension *)

\* variant: the table's interpretation resolves the band boundaries downwards
TablaPromedios_BandaAbajo(promedios) ==
    LET dims == Existentes(DIMENSIONES_ORDEN, DOMAIN promedios)
    IN [k \in DOMAIN dims |->
            [Dimension |-> dims[k],
             Promedio |-> promedios[dims[k]],
             Interpretacion |-> interpretar_promedio_LimiteAbajo(promedios[dims[k]])]]

\* rows of promedios_df before sorting, in dict order
TablaPromedios(promedios) ==
    LET dims == Existentes(DIMENSIONES_ORDEN, DOMAIN promedios)
    IN [k \in DOMAIN dims |->
            [Dimension |-> dims[k],
             Promedio |-> promedios[dims[k]],
             Interpretacion |-> interpretar_promedio(promedios[dims[k]])]]

AnalisisPregunta(dfp, pregunta) ==
    LET valores == DropNa(Columna(dfp, pregunta))
        promedio == Mean([i \in DOMAIN valores |-> Num(valores[i])])
    IN [distribucion |-> ValueCounts(valores),
        promedio |-> promedio,
        interpretacion |-> interpretar_promedio(promedio)]

analisis_por_dimensiones(dfp) ==
    LET promedios == calcular_promedios_por_dimension(dfp)
        tabla == OrdenarDesc(TablaPromedios(promedios))
        resumen == IF DOMAIN promedios # {}
                   THEN ("promedios_dimensiones" :> tabla)
                        @@ ("dimension_mejor" :> tabla[1].Dimension)
                        @@ ("promedio_mejor" :> tabla[1].Promedio)
                        @@ ("dimension_peor" :> tabla[Len(tabla)].Dimension)
                        @@ ("promedio_peor" :> tabla[Len(tabla)].Promedio)
                   ELSE <<>>
        conValores(d) == {p \in Range(Existentes(DIMENSIONES[d], dfp.cols)) :
                            DropNa(Columna(dfp, p)) # <<>>}
        preguntas == [d \in {x \in DOMAIN DIMENSIONES : conValores(x) # {}} |->
                        [p \in conValores(d) |-> AnalisisPregunta(dfp, p)]]
    IN resumen @@ ("analisis_preguntas" :> preguntas)

-----------------------------------------------------------------------------
(* Figures: generar_visualizaciones *)

generar_visualizaciones(res) ==
    IF "error" \in DOMAIN res THEN ("error" :> res["error"])
    ELSE LET tiene(k, sub) == k \in DOMAIN res /\ sub \in DOMAIN res[k]
             fig(k, sub, name) == IF tiene(k, sub) THEN (name :> "figura") ELSE <<>>
         IN fig("descriptivo", "distribucion_respuestas", "distribucion_respuestas")
            @@ fig("descriptivo", "distribucion_comunas", "distribucion_comunas")
            @@ fig("dimensiones", "promedios_dimensiones", "promedios_dimensiones")
            @@ fig("dimensiones", "promedios_dimensiones", "radar_dimensiones")
            @@ fig("clusters", "pca_data", "clusters_pca")

-----------------------------------------------------------------------------
(* Datasets handed to the entry point *)

RespuestasCrudas ==
    {StrCell("DE ACUERDO"), StrCell("NI DEACUERDO, NI EN DESACUERDO"),
     StrCell("EN DESACUERDO"), StrCell(""), StrCell("de acuerdo"), NaN}

ColumnasModelo ==
    {"1.1_A_GUSTO_TRABAJANDO_CON_OTRAS_GESTORAS", "2.1_LIDERAZGO_RESPESTUOSO",
     "2.2_OPORTUNIDAD_DE_PROPONER_IDEAS", "NOMBRE_COMEDOR"}

ValoresCelda(col) ==
    IF col \in TodasPreguntasConfig THEN RespuestasCrudas
    ELSE {StrCell("Comedor A"), StrCell("Comedor B")}

FilasDe(cols) ==
    {f \in [cols -> RespuestasCrudas \cup ValoresCelda("NOMBRE_COMEDOR")] :
        \A c \in cols : f[c] \in ValoresCelda(c)}

ConjuntosDeColumnas == {c \in SUBSET ColumnasModelo : Cardinality(c) <= MaxCols}

\* df is None or a frame of at most MaxRows rows over at most MaxCols columns
EsDatasetEntrada(df) ==
    \/ df = None
    \/ \E cols \in ConjuntosDeColumnas : \E n \in 0..MaxRows :
          \E rows \in [1..n -> FilasDe(cols)] : df = DF(cols, rows)

-----------------------------------------------------------------------------
(* ejecutar_analisis_completo followed by generar_visualizaciones          *)

Init ==
    /\ EsDatasetEntrada(df_datos)
    /\ n_clusters = 3
    /\ pc = "inicio"
    /\ df_prep = None
    /\ resultados = <<>>
    /\ pasos = <<>>
    /\ figuras = <<>>
    /\ excepcion = ""
    /\ interpretados = {}
    /\ pantalla = <<>>
    /\ memoria = <<>>
    /\ llamadas = {}

\* lines 438-440: absent or empty dataset
RetornarError ==
    /\ pc = "inicio"
    /\ (df_datos.none \/ Empty(df_datos))
    /\ resultados' = ("error" :> "No se pudieron cargar los datos")
    /\ pc' = "returned"
    /\ UNCHANGED <<df_datos, n_clusters, df_prep, pasos, figuras, excepcion, interpretados,
                   pantalla, memoria, llamadas>>

\* lines 442-449
PrepararDatos ==
    /\ pc = "inicio"
    /\ ~(df_datos.none \/ Empty(df_datos))
    /\ LET prep == preparar_datos(df_datos)
       IN IF Raised(prep)
          THEN /\ excepcion' = "ValueError"
               /\ pc' = "raised"
               /\ UNCHANGED <<df_prep, resultados>>
          ELSE /\ df_prep' = prep
               /\ resultados' = ("datos_originales" :> df_datos)
                                @@ ("datos_preparados" :> prep)
               /\ pc' = "descriptivo"
               /\ UNCHANGED excepcion
    /\ UNCHANGED <<df_datos, n_clusters, pasos, figuras, interpretados,
                   pantalla, memoria, llamadas>>

\* lines 451-452
Descriptivo ==
    /\ pc = "descriptivo"
    /\ resultados' = ("descriptivo" :> analisis_descriptivo(df_datos, df_prep))
                     @@ resultados
    /\ pasos' = Append(pasos, "descriptivo")
    /\ pc' = "dimensiones"
    /\ UNCHANGED <<df_datos, n_clusters, df_prep, figuras, excepcion, interpretados,
                   pantalla, memoria, llamadas>>

\* lines 454-455
Dimensiones ==
    /\ pc = "dimensiones"
    /\ resultados' = ("dimensiones" :> analisis_por_dimensiones(df_prep))
                     @@ resultados
    /\ pasos' = Append(pasos, "dimensiones")
    /\ pc' = "correlaciones"
    /\ UNCHANGED <<df_datos, n_clusters, df_prep, figuras, excepcion, interpretados,
                   pantalla, memoria, llamadas>>

\* lines 457-458: the name analisis_correlaciones is bound nowhere in the
\* module, so evaluating the call raises NameError and the call is left
Correlaciones ==
    /\ pc = "correlaciones"
    /\ excepcion' = "NameError"
    /\ pc' = "raised"
    /\ UNCHANGED <<df_datos, n_clusters, df_prep, resultados, pasos, figuras, interpretados,
                   pantalla, memoria, llamadas>>

\* app.py line 192, reached when the call returned
GenerarVisualizaciones ==
    /\ pc = "returned"
    /\ figuras' = generar_visualizaciones(resultados)
    /\ pc' = "visualizado"
    /\ UNCHANGED <<df_datos, n_clusters, df_prep, resultados, pasos, excepcion, interpretados,
                   pantalla, memoria, llamadas>>

\* variant: the handler shows the message without the trace
MostrarError_SinTraza(e) ==
    <<[st |-> "error", texto |-> "Ha ocurrido un error en la aplicación: ", e |-> e],
      [st |-> "info", texto |-> "Recomendación: Verifique la conexión con Google Sheets y la estructura de los datos.", e |-> ""]>>

\* app.py lines 999-1001: st.error with str(e), st.code with the formatted
\* traceback of e, st.info with a fixed recommendation
MostrarError(e) ==
    <<[st |-> "error", texto |-> "Ha ocurrido un error en la aplicación: ", e |-> e],
      [st |-> "code", texto |-> "traceback.format_exc()", e |-> e],
      [st |-> "info", texto |-> "Recomendación: Verifique la conexión con Google Sheets y la estructura de los datos.", e |-> ""]>>

\* app.py lines 998-1001: the exception that left the call at line 191 is
\* caught by the handler of the script's try block, which is its last statement
AppExcept ==
    /\ pc = "raised"
    /\ pantalla' = pantalla \o MostrarError(excepcion)
    /\ pc' = "detenido"
    /\ UNCHANGED <<df_datos, n_clusters, df_prep, resultados, pasos, figuras,
                   excepcion, interpretados, memoria, llamadas>>

Next ==
    \/ RetornarError
    \/ PrepararDatos
    \/ Descriptivo
    \/ Dimensiones
    \/ Correlaciones
    \/ GenerarVisualizaciones
    \/ AppExcept

Spec == Init /\ [][Next]_vars

-----------------------------------------------------------------------------
(* interpretar_promedio applied to scores *)

Puntajes == {Rat(n, 4) : n \in -2..MaxCuartos}

InitInterpretar ==
    /\ df_datos = None
    /\ n_clusters = 3
    /\ pc = "interpretar"
    /\ df_prep = None
    /\ resultados = <<>>
    /\ pasos = <<>>
    /\ figuras = <<>>
    /\ excepcion = ""
    /\ interpretados = {}
    /\ pantalla = <<>>
    /\ memoria = <<>>
    /\ llamadas = {}

\* one call of interpretar_promedio (analisis_dior.py lines 221 and 266)
Interpretar ==
    /\ pc = "interpretar"
    /\ Cardinality(interpretados) < 2
    /\ \E v \in Puntajes :
          interpretados' = interpretados \cup
                              {[valor |-> v, banda |-> interpretar_promedio(v)]}
    /\ UNCHANGED <<df_datos, n_clusters, pc, df_prep, resultados, pasos,
                   figuras, excepcion, pantalla, memoria, llamadas>>

NextInterpretar == Interpretar

SpecInterpretar == InitInterpretar /\ [][NextInterpretar]_vars

-----------------------------------------------------------------------------
(* Role Comparator: analisis_liderazgo_por_rol                             *)
(* Role texts are sequences of characters, so that strip, upper and the    *)
(* substring test act on the characters.                                   *)

TxtCell(chars) == [t |-> "txt", s |-> chars, n |-> 0]

columnas_requeridas ==
    <<"ROL", "NOMBRE_COMEDOR", "2.1_LIDERAZGO_RESPESTUOSO",
      "2.2_OPORTUNIDAD_DE_PROPONER_IDEAS",
      "2.3_ESPACIOS_ADECUADOS_RETROALIMENTACION">>

preguntas_liderazgo ==
    <<"2.1_LIDERAZGO_RESPESTUOSO", "2.2_OPORTUNIDAD_DE_PROPONER_IDEAS",
      "2.3_ESPACIOS_ADECUADOS_RETROALIMENTACION">>

\* "GESTORA/OR PRINCIPAL"
rol_principal ==
    <<"G", "E", "S", "T", "O", "R", "A", "/", "O", "R", " ", "P", "R", "I",
      "N", "C", "I", "P", "A", "L">>

\* "GESTORA/OR  AUXILIAR" (two blanks, as written in the source)
rol_auxiliar ==
    <<"G", "E", "S", "T", "O", "R", "A", "/", "O", "R", " ", " ", "A", "U",
      "X", "I", "L", "I", "A", "R">>

Minusculas ==
    <<"a", "b", "c", "d", "e", "f", "g", "h", "i", "j", "k", "l", "m",
      "n", "o", "p", "q", "r", "s", "t", "u", "v", "w", "x", "y", "z">>

Mayusculas ==
    <<"A", "B", "C", "D", "E", "F", "G", "H", "I", "J", "K", "L", "M",
      "N", "O", "P", "Q", "R", "S", "T", "U", "V", "W", "X", "Y", "Z">>

\* the upper-case letter of every lower-case letter
EnMayuscula ==
    [c \in Range(Minusculas) |->
        Mayusculas[CHOOSE k \in DOMAIN Minusculas : Minusculas[k] = c]]

UpperChar(c) == IF c \in DOMAIN EnMayuscula THEN EnMayuscula[c] ELSE c

\* str.upper()
Upper(chars) == [i \in DOMAIN chars |-> UpperChar(chars[i])]

Blancos == {" ", "\t", "\n"}

RECURSIVE LStrip(_)
LStrip(chars) ==
    IF chars # <<>> /\ Head(chars) \in Blancos THEN LStrip(Tail(chars)) ELSE chars

RECURSIVE RStrip(_)
RStrip(chars) ==
    IF chars # <<>> /\ chars[Len(chars)] \in Blancos
    THEN RStrip(SubSeq(chars, 1, Len(chars) - 1))
    ELSE chars

\* str.strip()
Strip(chars) == RStrip(LStrip(chars))

\* str.contains(pat) for a pattern without regular-expression operators
Contains(chars, pat) ==
    \E i \in 0..(Len(chars) - Len(pat)) : SubSeq(chars, i + 1, i + Len(pat)) = pat

\* line 614: the required columns that the frame lacks, in list order
RECURSIVE NoExistentes(_, _)
NoExistentes(seq, cols) ==
    IF seq = <<>> THEN <<>>
    ELSE IF Head(seq) \notin cols THEN <<Head(seq)>> \o NoExistentes(Tail(seq), cols)
    ELSE NoExistentes(Tail(seq), cols)

\* variant: the message lists every required column
missing_columns_Todas(df) ==
    IF NoExistentes(columnas_requeridas, df.cols) # <<>>
    THEN columnas_requeridas ELSE <<>>

missing_columns(df) == NoExistentes(columnas_requeridas, df.cols)

\* the f-string of line 615: a fixed prefix followed by the joined names
MensajeFaltantes(cols) == [prefijo |-> "Faltan columnas requeridas: ",
                           unidas |-> cols, separador |-> ", "]

\* variant: the role text is trimmed but its case is kept
ROL_NORMALIZADO_SinUpper(row) == Strip(row["ROL"].s)

\* lines 617-621: rows with a role, each with its normalized role text
ROL_NORMALIZADO(row) == Upper(Strip(row["ROL"].s))

df_con_rol(df) == Filtrar(df, [i \in DOMAIN df.rows |-> df.rows[i]["ROL"].t # "nan"])

MascaraRol(df, rol) == [i \in DOMAIN df.rows |-> Contains(ROL_NORMALIZADO(df.rows[i]), rol)]

MascaraComedor(df, comedor) ==
    [i \in DOMAIN df.rows |-> df.rows[i]["NOMBRE_COMEDOR"] = comedor]

ComedoresDe(df) == {df.rows[i]["NOMBRE_COMEDOR"] : i \in DOMAIN df.rows}

PromedioColumna(df, col) == Mean([i \in DOMAIN df.rows |-> Num(df.rows[i][col])])

\* variant: the thresholds are strict (< instead of <=)
Concordancia_Estricta(diferencia) ==
    IF RLt(RAbs(diferencia), Rat(1, 2)) THEN "Alta"
    ELSE IF RLt(RAbs(diferencia), Rat(1, 1)) THEN "Media"
    ELSE "Baja"

\* line 692
Concordancia(diferencia) ==
    IF RLe(RAbs(diferencia), Rat(1, 2)) THEN "Alta"
    ELSE IF RLe(RAbs(diferencia), Rat(1, 1)) THEN "Media"
    ELSE "Baja"

\* variant: the overall agreement is taken from the mean of the differences
ConcordanciaGlobal_DelPromedio(diferencias) ==
    Concordancia(RDivInt(RSumSeq(diferencias), Len(diferencias)))

\* line 706
ConcordanciaGlobal(diferencias) ==
    IF \A k \in DOMAIN diferencias : RLe(diferencias[k], Rat(1, 2)) THEN "Alta"
    ELSE IF \A k \in DOMAIN diferencias : RLe(diferencias[k], Rat(1, 1)) THEN "Media"
    ELSE "Baja"

\* lines 646-659
AnalisisGlobalPregunta(dfr, pregunta) ==
    LET promedio_principal == PromedioColumna(Filtrar(dfr, MascaraRol(dfr, rol_principal)), pregunta)
        promedio_auxiliar == PromedioColumna(Filtrar(dfr, MascaraRol(dfr, rol_auxiliar)), pregunta)
        diferencia == RSub(promedio_principal, promedio_auxiliar)
    IN [promedio_principal |-> promedio_principal,
        promedio_auxiliar |-> promedio_auxiliar,
        diferencia |-> diferencia,
        diferencia_abs |-> RAbs(diferencia)]

\* lines 679-702
AnalisisComedorPregunta(df_principal, df_auxiliar, pregunta) ==
    LET promedio_principal == PromedioColumna(df_principal, pregunta)
        promedio_auxiliar == PromedioColumna(df_auxiliar, pregunta)
        diferencia == RSub(promedio_principal, promedio_auxiliar)
    IN [valores_principal |-> Columna(df_principal, pregunta),
        valores_auxiliar |-> Columna(df_auxiliar, pregunta),
        promedio_principal |-> promedio_principal,
        promedio_auxiliar |-> promedio_auxiliar,
        diferencia |-> diferencia,
        diferencia_abs |-> RAbs(diferencia),
        concordancia |-> Concordancia(diferencia)]

\* lines 666-712
AnalisisComedor(dfr, comedor) ==
    LET df_comedor == Filtrar(dfr, MascaraComedor(dfr, comedor))
        df_principal == Filtrar(df_comedor, MascaraRol(df_comedor, rol_principal))
        df_auxiliar == Filtrar(df_comedor, MascaraRol(df_comedor, rol_auxiliar))
        analisis_comedor ==
            [p \in Range(preguntas_liderazgo) |->
                AnalisisComedorPregunta(df_principal, df_auxiliar, p)]
        diferencias == [k \in DOMAIN preguntas_liderazgo |->
                            analisis_comedor[preguntas_liderazgo[k]].diferencia_abs]
    IN [analisis_preguntas |-> analisis_comedor,
        diferencia_promedio |-> RDivInt(RSumSeq(diferencias), Len(diferencias)),
        concordancia_global |-> ConcordanciaGlobal(diferencias)]

\* variant: an entity with either role is analysed
comedores_ambos_roles_Union(comedores_principales, comedores_auxiliares) ==
    comedores_principales \cup comedores_auxiliares

\* line 630
comedores_ambos_roles(comedores_principales, comedores_auxiliares) ==
    comedores_principales \cap comedores_auxiliares

\* variant: entities of low agreement are not tallied
resumen_concordancia_SinBaja(analisis_comedores) ==
    LET cuenta(nivel) == Cardinality({c \in DOMAIN analisis_comedores :
                                        analisis_comedores[c].concordancia_global = nivel})
    IN [Alta |-> cuenta("Alta"), Media |-> cuenta("Media"), Baja |-> 0]

\* lines 714-727: one tally per entry of analisis_comedores
resumen_concordancia(analisis_comedores) ==
    LET cuenta(nivel) == Cardinality({c \in DOMAIN analisis_comedores :
                                        analisis_comedores[c].concordancia_global = nivel})
    IN [Alta |-> cuenta("Alta"), Media |-> cuenta("Media"), Baja |-> cuenta("Baja")]

analisis_liderazgo_por_rol(df) ==
    IF missing_columns(df) # <<>>
    THEN ("error" :> MensajeFaltantes(missing_columns(df)))
    ELSE
    LET dfr == df_con_rol(df)
        principales == ComedoresDe(Filtrar(dfr, MascaraRol(dfr, rol_principal)))
        auxiliares == ComedoresDe(Filtrar(dfr, MascaraRol(dfr, rol_auxiliar)))
        ambos_roles == comedores_ambos_roles(principales, auxiliares)
        analisis_comedores == [c \in ambos_roles |-> AnalisisComedor(dfr, c)]
    IN ("total_comedores" :> Cardinality(ComedoresDe(dfr)))
       @@ ("comedores_con_principal" :> Cardinality(principales))
       @@ ("comedores_con_auxiliar" :> Cardinality(auxiliares))
       @@ ("comedores_con_ambos_roles" :> Cardinality(ambos_roles))
       @@ ("analisis_global" :>
              [p \in Range(preguntas_liderazgo) |-> AnalisisGlobalPregunta(dfr, p)])
       @@ ("analisis_comedores" :> analisis_comedores)
       @@ ("resumen_concordancia" :> resumen_concordancia(analisis_comedores))

-----------------------------------------------------------------------------
(* analisis_liderazgo_por_rol applied to a prepared dataset                *)

\* " gestora/or principal " as typed by a respondent
TextoPrincipalMinusculas ==
    <<" ", "g", "e", "s", "t", "o", "r", "a", "/", "o", "r", " ", "p", "r",
      "i", "n", "c", "i", "p", "a", "l", " ">>

\* "GESTORA/OR AUXILIAR" with a single blank
TextoAuxiliarUnBlanco ==
    <<"G", "E", "S", "T", "O", "R", "A", "/", "O", "R", " ", "A", "U", "X",
      "I", "L", "I", "A", "R">>

FilaRol(rol, comedor, a, b, c) ==
    ("ROL" :> rol) @@ ("NOMBRE_COMEDOR" :> StrCell(comedor))
    @@ ("2.1_LIDERAZGO_RESPESTUOSO" :> IntCell(a))
    @@ ("2.2_OPORTUNIDAD_DE_PROPONER_IDEAS" :> IntCell(b))
    @@ ("2.3_ESPACIOS_ADECUADOS_RETROALIMENTACION" :> IntCell(c))

\* the prepared rows that datasets of the role comparison are made of
PaletaRol ==
    <<FilaRol(TxtCell(rol_principal), "Comedor A", 3, 3, 3),
      FilaRol(TxtCell(TextoPrincipalMinusculas), "Comedor A", 3, 1, 0),
      FilaRol(TxtCell(rol_auxiliar), "Comedor A", 3, 3, 3),
      FilaRol(TxtCell(rol_auxiliar), "Comedor A", 2, 2, 1),
      FilaRol(TxtCell(TextoAuxiliarUnBlanco), "Comedor A", 1, 1, 1),
      FilaRol(NaN, "Comedor A", 1, 1, 1),
      FilaRol(TxtCell(rol_principal), "Comedor B", 2, 2, 2),
      FilaRol(TxtCell(rol_auxiliar), "Comedor B", 2, 3, 0),
      FilaRol(TxtCell(rol_auxiliar), "Comedor B", 2, 2, 3),
      FilaRol(TxtCell(TextoPrincipalMinusculas), "Comedor B", 0, 3, 1)>>

\* row order does not enter any result of the comparison, so datasets are
\* enumerated as non-decreasing sequences of palette indices
RECURSIVE NoDecrecientes(_, _)
NoDecrecientes(n, desde) ==
    IF n = 0 THEN {<<>>}
    ELSE UNION {{<<k>> \o t : t \in NoDecrecientes(n - 1, k)} :
                  k \in desde..Len(PaletaRol)}

Restringir(row, cols) == [c \in cols |-> row[c]]

DatasetRol(cols, idx) ==
    DF(cols, [i \in DOMAIN idx |-> Restringir(PaletaRol[idx[i]], cols)])

InitRol ==
    /\ df_datos = None
    /\ n_clusters = 3
    /\ pc = "rol"
    /\ \/ \E n \in 0..MaxFilasRol : \E idx \in NoDecrecientes(n, 1) :
             df_prep = DatasetRol(Range(columnas_requeridas), idx)
       \/ \E faltan \in SUBSET Range(columnas_requeridas) :
             /\ faltan # {}
             /\ \E n \in 1..MaxFilasIncompleto : \E idx \in NoDecrecientes(n, 1) :
                   df_prep = DatasetRol(Range(columnas_requeridas) \ faltan, idx)
    /\ resultados = <<>>
    /\ pasos = <<>>
    /\ figuras = <<>>
    /\ excepcion = ""
    /\ interpretados = {}
    /\ pantalla = <<>>
    /\ memoria = <<>>
    /\ llamadas = {}

\* app.py line 653 and pages/liderazgo.py line 43
AnalisisLiderazgoPorRol ==
    /\ pc = "rol"
    /\ resultados' = analisis_liderazgo_por_rol(df_prep)
    /\ pc' = "rol_fin"
    /\ UNCHANGED <<df_datos, n_clusters, df_prep, pasos, figuras, excepcion,
                   interpretados,
                   pantalla, memoria, llamadas>>

NextRol == AnalisisLiderazgoPorRol

SpecRol == InitRol /\ [][NextRol]_vars

-----------------------------------------------------------------------------
(* 3.4 Cluster Profiler: analisis_clusters                                 *)
(* KMeans and PCA are library calls.  fit_predict is any assignment of a   *)
(* label 0..k-1 to every row; the projected coordinates are not modelled.  *)

Min(a, b) == IF a < b THEN a ELSE b
Max(a, b) == IF a > b THEN a ELSE b

\* mask.sum()
RECURSIVE ContarVerdaderos(_)
ContarVerdaderos(mask) ==
    IF mask = <<>> THEN 0
    ELSE (IF Head(mask) THEN 1 ELSE 0) + ContarVerdaderos(Tail(mask))

\* promedios_dim.items(), in dict order
ItemsPromedios(promedios) ==
    LET dims == Existentes(DIMENSIONES_ORDEN, DOMAIN promedios)
    IN [j \in DOMAIN dims |-> [Dimension |-> dims[j], Promedio |-> promedios[dims[j]]]]

\* df_cluster[todas_preguntas].mean().mean()
PromedioGeneral(df, cols) ==
    Mean([j \in DOMAIN cols |-> PromedioColumna(df, cols[j])])

\* variant: the member count is the length of the mask
PerfilCluster_CuentaMascara(df, dfp, etiquetas, cluster_id) ==
    [n_comedores |-> Len(etiquetas),
     promedios_dimensiones |-> <<>>,
     fortalezas |-> <<>>,
     debilidades |-> <<>>,
     promedio_general |-> RNaN]

\* lines 339-373: the profile of one cluster
PerfilCluster(df, dfp, etiquetas, cluster_id) ==
    LET mask == [i \in DOMAIN etiquetas |-> etiquetas[i] = cluster_id]
        df_cluster == Filtrar(dfp, mask)
        promedios_dim == [d \in DimensionesPresentes(dfp) |->
                            PromedioDimension(df_cluster, DIMENSIONES[d])]
        sorted_dims == OrdenarDesc(ItemsPromedios(promedios_dim))
        base == [n_comedores |-> ContarVerdaderos(mask),
                 promedios_dimensiones |-> promedios_dim,
                 fortalezas |-> SubSeq(sorted_dims, 1, Min(3, Len(sorted_dims))),
                 debilidades |-> SubSeq(sorted_dims, Max(1, Len(sorted_dims) - 2),
                                        Len(sorted_dims)),
                 promedio_general |-> PromedioGeneral(df_cluster, TodasPreguntas(dfp))]
    IN IF "NOMBRE_COMEDOR" \in df.cols
       THEN [c \in {"comedores"} |-> Columna(Filtrar(df, mask), "NOMBRE_COMEDOR")] @@ base
       ELSE base

\* line 300: the question columns of the prepared frame as numbers, a
\* missing cell replaced by the mean of its column
MatrizX(dfp) ==
    LET cols == TodasPreguntas(dfp)
    IN [i \in DOMAIN dfp.rows |->
          [j \in DOMAIN cols |->
              IF IsNaN(Num(dfp.rows[i][cols[j]]))
              THEN PromedioColumna(dfp, cols[j])
              ELSE Num(dfp.rows[i][cols[j]])]]

\* lines 310-333 and 375: the result for a given labelling
analisis_clusters(df, dfp, k, etiquetas) ==
    ("clusters" :>
        DF(df.cols \cup {"Cluster"},
           [i \in DOMAIN df.rows |-> ("Cluster" :> IntCell(etiquetas[i])) @@ df.rows[i]]))
    @@ ("n_clusters" :> k)
    @@ ("kmeans_model" :> "KMeans")
    @@ ("pca_data" :>
          [i \in DOMAIN df.rows |->
              IF "NOMBRE_COMEDOR" \in df.cols
              THEN [Cluster |-> etiquetas[i], Comedor |-> df.rows[i]["NOMBRE_COMEDOR"]]
              ELSE [Cluster |-> etiquetas[i]]])
    @@ ("pca_varianza" :> "explained_variance_ratio_")
    @@ ("perfiles_clusters" :>
          [c \in 0..(k - 1) |-> PerfilCluster(df, dfp, etiquetas, c)])

RespuestasClusters == {StrCell("DE ACUERDO"), StrCell("EN DESACUERDO")}

ColumnasClusters ==
    {"1.1_A_GUSTO_TRABAJANDO_CON_OTRAS_GESTORAS", "2.1_LIDERAZGO_RESPESTUOSO",
     "NOMBRE_COMEDOR"}

\* two kitchens answer in turn: odd rows are Comedor A, even rows Comedor B
NombreDeFila(i) == IF i % 2 = 1 THEN StrCell("Comedor A") ELSE StrCell("Comedor B")

DatasetClusters(cols, respuestas) ==
    DF(cols, [i \in DOMAIN respuestas |->
                [c \in cols |-> IF c = "NOMBRE_COMEDOR" THEN NombreDeFila(i)
                                ELSE respuestas[i][c]]])

\* the state at line 461: a dataset that passed the test of line 439 (not
\* None, not empty), with any number of rows from 1, and its prepared copy;
\* in a dataset of up to MaxFilasConBlancos rows the first respondent may
\* have left answers blank
InitClusters ==
    /\ \E cols \in SUBSET ColumnasClusters : \E n \in 1..MaxFilasClusters :
          /\ cols # {}
          /\ \E respuestas \in [1..n -> [cols \cap TodasPreguntasConfig
                                            -> RespuestasClusters \cup {NaN}]] :
                /\ \A i \in 1..n : NaN \in Range(respuestas[i])
                                        => i = 1 /\ n <= MaxFilasConBlancos
                /\ df_datos = DatasetClusters(cols, respuestas)
    /\ n_clusters \in 2..MaxK
    /\ pc = "clusters"
    /\ df_prep = preparar_datos(df_datos)
    /\ resultados = <<>>
    /\ pasos = <<>>
    /\ figuras = <<>>
    /\ excepcion = ""
    /\ interpretados = {}
    /\ pantalla = <<>>
    /\ memoria = <<>>
    /\ llamadas = {}

\* line 298: no question column, the result stays empty
ClustersSinPreguntas ==
    /\ pc = "clusters"
    /\ TodasPreguntas(df_prep) = <<>>
    /\ resultados' = <<>>
    /\ pc' = "clusters_fin"
    /\ UNCHANGED <<df_datos, n_clusters, df_prep, pasos, figuras, excepcion,
                   interpretados,
                   pantalla, memoria, llamadas>>

\* line 308: KMeans refuses fewer samples than clusters
ClustersKMeansError ==
    /\ pc = "clusters"
    /\ TodasPreguntas(df_prep) # <<>>
    /\ Len(df_prep.rows) < n_clusters
    /\ excepcion' = "ValueError"
    /\ pc' = "raised"
    /\ UNCHANGED <<df_datos, n_clusters, df_prep, resultados, pasos, figuras,
                   interpretados,
                   pantalla, memoria, llamadas>>

\* line 320: PCA(n_components=2) refuses a matrix with fewer than two rows
\* or columns
ClustersPCAError ==
    /\ pc = "clusters"
    /\ TodasPreguntas(df_prep) # <<>>
    /\ Len(df_prep.rows) >= n_clusters
    /\ Min(Len(df_prep.rows), Len(TodasPreguntas(df_prep))) < 2
    /\ excepcion' = "ValueError"
    /\ pc' = "raised"
    /\ UNCHANGED <<df_datos, n_clusters, df_prep, resultados, pasos, figuras,
                   interpretados,
                   pantalla, memoria, llamadas>>

\* lines 298-377 when both library calls succeed
AnalisisClusters ==
    /\ pc = "clusters"
    /\ TodasPreguntas(df_prep) # <<>>
    /\ Len(df_prep.rows) >= n_clusters
    /\ Min(Len(df_prep.rows), Len(TodasPreguntas(df_prep))) >= 2
    /\ \E etiquetas \in [DOMAIN df_prep.rows -> 0..(n_clusters - 1)] :
          resultados' = analisis_clusters(df_datos, df_prep, n_clusters, etiquetas)
    /\ pc' = "clusters_fin"
    /\ UNCHANGED <<df_datos, n_clusters, df_prep, pasos, figuras, excepcion,
                   interpretados,
                   pantalla, memoria, llamadas>>

NextClusters ==
    \/ ClustersSinPreguntas
    \/ ClustersKMeansError
    \/ ClustersPCAError
    \/ AnalisisClusters

SpecClusters == InitClusters /\ [][NextClusters]_vars

-----------------------------------------------------------------------------
(* Column letters: utils.obtener_letra_a_indice, config.GRUPOS_COLUMNAS    *)
(* A column letter is a sequence of characters.                            *)

\* ord() of a letter
CodigoDeLetra ==
    [c \in Range(Mayusculas) \cup Range(Minusculas) |->
        IF c \in Range(Mayusculas)
        THEN 64 + (CHOOSE k \in DOMAIN Mayusculas : Mayusculas[k] = c)
        ELSE 96 + (CHOOSE k \in DOMAIN Minusculas : Minusculas[k] = c)]

ord(c) == CodigoDeLetra[c]

\* variant: the first letter of a two-letter label counts from 0
obtener_letra_a_indice_SinMasUno(letra) ==
    IF Len(letra) = 1 THEN ord(letra[1]) - ord("A")
    ELSE IF Len(letra) = 2
    THEN (ord(letra[1]) - ord("A")) * 26 + (ord(letra[2]) - ord("A"))
    ELSE -1

obtener_letra_a_indice(letra) ==
    IF Len(letra) = 1 THEN ord(letra[1]) - ord("A")
    ELSE IF Len(letra) = 2
    THEN (ord(letra[1]) - ord("A") + 1) * 26 + (ord(letra[2]) - ord("A"))
    ELSE -1

\* the (name, letter) items of the three groups, in dict order
GRUPOS_COLUMNAS ==
    <<[nombre |-> "LIDERAZGO_GESTORA", letra |-> <<"L">>],
      [nombre |-> "OPORTUNIDADES_CRECIMIENTO", letra |-> <<"M">>],
      [nombre |-> "DECISIONES_LIDER", letra |-> <<"N">>],
      [nombre |-> "ESPACIOS_RETROALIMENTACION", letra |-> <<"O">>],
      [nombre |-> "RETROALIMENTACION_ADECUADA", letra |-> <<"P">>],
      [nombre |-> "FELICITACION_DEL_LIDER", letra |-> <<"Q">>],
      [nombre |-> "ACTIVIDADES_QUE_CORRESPONDEN", letra |-> <<"R">>],
      [nombre |-> "LIDER_GENERA_CONFIANZA", letra |-> <<"S">>],
      [nombre |-> "ARTICULA_ACTIVIDADES", letra |-> <<"T">>],
      [nombre |-> "LIBERTAD_DE_EXPRESARSE", letra |-> <<"U">>],
      [nombre |-> "OPINION_EN_CUENTA", letra |-> <<"V">>],
      [nombre |-> "RECONOCIDOS_POR_LOGROS", letra |-> <<"W">>],
      [nombre |-> "HABILIDADES_RECONOCIDAS", letra |-> <<"X">>],
      [nombre |-> "TRABAJO_EN_EQUIPO", letra |-> <<"Y">>],
      [nombre |-> "RELACIONES_RESPETUOSAS", letra |-> <<"Z">>],
      [nombre |-> "RED_INTERNA_FORTALECIDA", letra |-> <<"A", "A">>],
      [nombre |-> "OBJETIVOS_COMEDOR", letra |-> <<"A", "B">>],
      [nombre |-> "ACTIVIDADES_RECREATIVAS", letra |-> <<"A", "C">>],
      [nombre |-> "ACTIVIDADES_FORMATIVAS", letra |-> <<"A", "D">>],
      [nombre |-> "CAPACITACIONES", letra |-> <<"A", "E">>],
      [nombre |-> "LABOR_SOCIAL", letra |-> <<"A", "F">>],
      [nombre |-> "ORGULLOSO_DE_LABOR_SOCIAL", letra |-> <<"A", "G">>],
      [nombre |-> "IMPACTO_LABOR_SOCIAL", letra |-> <<"A", "H">>],
      [nombre |-> "FORTALECIDO_LABOR_SOCIAL", letra |-> <<"A", "I">>],
      [nombre |-> "APORTA_OBJETIVOS_CC", letra |-> <<"A", "J">>],
      [nombre |-> "APORTA_POSITIVAMENTE", letra |-> <<"A", "K">>]>>

\* MAPEO_RESPUESTAS of config.py, the 5-point vocabulary
config_MAPEO_RESPUESTAS ==
    ("TOTALMENTE EN DESACUERDO" :> 1) @@
    ("EN DESACUERDO" :> 2) @@
    ("NI DE ACUERDO NI DESACUERDO" :> 3) @@
    ("DE ACUERDO" :> 4) @@
    ("TOTALMENTE DE ACUERDO" :> 5)

-----------------------------------------------------------------------------
(* preparar_dataframe of correlacion.py and clusters.py, and the objects   *)
(* the two encoders work on.  A frame whose column order matters carries   *)
(* its header as the sequence columns; cols is the set of its names.       *)

DFO(columns, rows) ==
    [none |-> FALSE, cols |-> Range(columns), rows |-> rows, columns |-> columns]

\* df[col] = df[col].map(MAPEO_RESPUESTAS).fillna(0).astype(int), config.py map
CodificarColumna(df, col) ==
    [df EXCEPT !.rows =
        [i \in DOMAIN df.rows |->
            [df.rows[i] EXCEPT
                ![col] = AstypeInt(FillNa(MapDict(@, config_MAPEO_RESPUESTAS), 0))]]]

\* df.rename(columns={viejo: nuevo}, inplace=True)
Renombrar(df, viejo, nuevo) ==
    LET nombres == (df.cols \ {viejo}) \cup {nuevo}
    IN [df EXCEPT
          !.columns = [k \in DOMAIN df.columns |->
                          IF df.columns[k] = viejo THEN nuevo ELSE df.columns[k]],
          !.cols = nombres,
          !.rows = [i \in DOMAIN df.rows |->
                      [c \in nombres |-> IF c = nuevo THEN df.rows[i][viejo]
                                         ELSE df.rows[i][c]]]]

\* one turn of the inner loop: by name when the name is a column, else by
\* the position its letter stands for
PrepararColumna(df_analisis, item) ==
    IF item.nombre \in df_analisis.cols
    THEN CodificarColumna(df_analisis, item.nombre)
    ELSE LET indice == obtener_letra_a_indice(item.letra)
         IN IF indice >= 0 /\ indice < Len(df_analisis.columns)
            THEN LET col_actual == df_analisis.columns[indice + 1]
                 IN Renombrar(CodificarColumna(df_analisis, col_actual),
                              col_actual, item.nombre)
            ELSE df_analisis

RECURSIVE PrepararDesde(_, _)
PrepararDesde(df_analisis, k) ==
    IF k > Len(GRUPOS_COLUMNAS) THEN df_analisis
    ELSE PrepararDesde(PrepararColumna(df_analisis, GRUPOS_COLUMNAS[k]), k + 1)

\* the content of df_analisis at the return, from its content after the copy
preparar_dataframe(df_analisis) == PrepararDesde(df_analisis, 1)

\* variant: the working name is bound to the object passed in (no copy)
df_copy_Alias(mem, ref, nuevo) == [mem |-> mem, ref |-> ref]

\* df.copy(): a new object with the content of the one ref names
df_copy(mem, ref, nuevo) == [mem |-> (nuevo :> mem[ref]) @@ mem, ref |-> nuevo]

\* rows of a sheet handed to an encoder
MaxFilasPreparar == 2

RespuestasPreparar ==
    {StrCell("DE ACUERDO"), StrCell("TOTALMENTE DE ACUERDO"),
     StrCell("NI DEACUERDO, NI EN DESACUERDO"), NaN}

MetadatosHoja ==
    <<"MARCA_TEMPORAL", "USUARIO", "FECHA", "BARRIO", "COMUNA", "NOMBRE_COMEDOR",
      "UBICACION", "NODO", "NICHO", "ROL", "EDAD">>

\* headers of the sheets: the DIOR questions, the grouped questions by name,
\* the grouped questions only by position (columns L and M), and a sheet
\* that names one grouped question in column M
EncabezadosPreparar ==
    {<<"NOMBRE_COMEDOR", "1.1_A_GUSTO_TRABAJANDO_CON_OTRAS_GESTORAS",
       "2.1_LIDERAZGO_RESPESTUOSO">>,
     <<"NOMBRE_COMEDOR", "LIDERAZGO_GESTORA", "OPORTUNIDADES_CRECIMIENTO">>,
     MetadatosHoja \o <<"PREGUNTA_1", "PREGUNTA_2">>,
     MetadatosHoja \o <<"PREGUNTA_1", "LIDERAZGO_GESTORA">>}

ColumnasRespuesta ==
    {"1.1_A_GUSTO_TRABAJANDO_CON_OTRAS_GESTORAS", "2.1_LIDERAZGO_RESPESTUOSO",
     "LIDERAZGO_GESTORA", "OPORTUNIDADES_CRECIMIENTO", "PREGUNTA_1", "PREGUNTA_2"}

\* the sheet with the given header and answers; other cells hold a fixed text
HojaPreparar(columns, respuestas) ==
    DFO(columns,
        [i \in DOMAIN respuestas |->
            [c \in Range(columns) |->
                IF c \in ColumnasRespuesta THEN respuestas[i][c]
                ELSE StrCell("Comedor A")]])

\* a caller holds the sheet under the name df and is about to prepare it
InitPreparar ==
    /\ \E columns \in EncabezadosPreparar : \E n \in 0..MaxFilasPreparar :
          \E respuestas \in [1..n -> [Range(columns) \cap ColumnasRespuesta
                                        -> RespuestasPreparar]] :
             df_datos = HojaPreparar(columns, respuestas)
    /\ memoria = ("df" :> df_datos)
    /\ n_clusters = 3
    /\ pc = "preparar"
    /\ df_prep = None
    /\ resultados = <<>>
    /\ pasos = <<>>
    /\ figuras = <<>>
    /\ excepcion = ""
    /\ interpretados = {}
    /\ pantalla = <<>>
    /\ llamadas = {}

\* analisis_dior.preparar_datos(df), lines 81-92
LlamarPrepararDatos ==
    /\ pc = "preparar"
    /\ IF Empty(memoria["df"])
       THEN /\ df_prep' = None
            /\ UNCHANGED memoria
       ELSE LET c == df_copy(memoria, "df", "df_prep")
                obj == c.mem[c.ref]
            IN /\ memoria' = [c.mem EXCEPT
                                ![c.ref] = [obj EXCEPT !.rows = preparar_datos(obj).rows]]
               /\ df_prep' = memoria'[c.ref]
    /\ pc' = "preparar_datos_fin"
    /\ UNCHANGED <<df_datos, n_clusters, resultados, pasos, figuras, excepcion,
                   interpretados, pantalla, llamadas>>

\* correlacion.preparar_dataframe(df), lines 17-34; the callers return before
\* the call when the sheet is None or empty (correlacion.py 41, clusters.py 40)
LlamarPrepararDataframe ==
    /\ pc = "preparar"
    /\ ~Empty(memoria["df"])
    /\ LET c == df_copy(memoria, "df", "df_analisis")
       IN /\ memoria' = [c.mem EXCEPT ![c.ref] = preparar_dataframe(@)]
          /\ df_prep' = memoria'[c.ref]
    /\ pc' = "preparar_dataframe_fin"
    /\ UNCHANGED <<df_datos, n_clusters, resultados, pasos, figuras, excepcion,
                   interpretados, pantalla, llamadas>>

NextPreparar ==
    \/ LlamarPrepararDatos
    \/ LlamarPrepararDataframe

SpecPreparar == InitPreparar /\ [][NextPreparar]_vars

-----------------------------------------------------------------------------
(* The inverse vocabulary of pages/dimensiones.py and an answer column     *)
(* taken through the encoder and back                                      *)

\* key order of the two vocabularies
MAPEO_RESPUESTAS_Claves ==
    <<"DE ACUERDO", "NI DEACUERDO, NI EN DESACUERDO", "EN DESACUERDO">>

config_MAPEO_RESPUESTAS_Claves ==
    <<"TOTALMENTE EN DESACUERDO", "EN DESACUERDO", "NI DE ACUERDO NI DESACUERDO",
      "DE ACUERDO", "TOTALMENTE DE ACUERDO">>

ClavesDe(m) == IF m = config_MAPEO_RESPUESTAS THEN config_MAPEO_RESPUESTAS_Claves
               ELSE MAPEO_RESPUESTAS_Claves

\* variant: the label of an integer is looked up by its position in the dict
InvertirDict_PorPosicion(claves, m) ==
    [v \in {m[claves[i]] : i \in DOMAIN claves} |-> claves[v]]

\* {v: k for k, v in m.items()}: of the keys with value v the last one stays
InvertirDict(claves, m) ==
    [v \in {m[claves[i]] : i \in DOMAIN claves} |->
        claves[CHOOSE i \in DOMAIN claves :
                  /\ m[claves[i]] = v
                  /\ \A j \in DOMAIN claves : m[claves[j]] = v => j <= i]]

MAPEO_INVERSO == InvertirDict(MAPEO_RESPUESTAS_Claves, MAPEO_RESPUESTAS)

\* Series.map(inverso) on a cell of integers: values that are not keys
\* become NaN
MapInverso(c, inverso) ==
    IF c.t = "int" /\ c.n \in DOMAIN inverso THEN StrCell(inverso[c.n]) ELSE NaN

\* length of an answer column
MaxSerie == 2

\* answers of a column: the labels of the vocabulary in use, a text outside
\* it and a missing answer
RespuestasDe(m) == {StrCell(k) : k \in DOMAIN m} \cup {StrCell("NO SABE"), NaN}

InitIdaVuelta ==
    /\ \E m \in {MAPEO_RESPUESTAS, config_MAPEO_RESPUESTAS} :
          \E n \in 1..MaxSerie : \E serie \in [1..n -> RespuestasDe(m)] :
             memoria = ("MAPEO_RESPUESTAS" :> m) @@ ("serie" :> serie)
    /\ df_datos = None
    /\ n_clusters = 3
    /\ pc = "ida"
    /\ df_prep = None
    /\ resultados = <<>>
    /\ pasos = <<>>
    /\ figuras = <<>>
    /\ excepcion = ""
    /\ interpretados = {}
    /\ pantalla = <<>>
    /\ llamadas = {}

\* serie.map(MAPEO_RESPUESTAS).fillna(0).astype(int)
Codificar ==
    /\ pc = "ida"
    /\ memoria' = ("codificada" :>
                      [i \in DOMAIN memoria["serie"] |->
                          AstypeInt(FillNa(MapDict(memoria["serie"][i],
                                                   memoria["MAPEO_RESPUESTAS"]), 0))])
                  @@ memoria
    /\ pc' = "vuelta"
    /\ UNCHANGED <<df_datos, n_clusters, df_prep, resultados, pasos, figuras,
                   excepcion, interpretados, pantalla, llamadas>>

\* codificada.map(MAPEO_INVERSO), pages/dimensiones.py line 188
Decodificar ==
    /\ pc = "vuelta"
    /\ LET m == memoria["MAPEO_RESPUESTAS"]
           inverso == IF m = MAPEO_RESPUESTAS THEN MAPEO_INVERSO
                      ELSE InvertirDict(ClavesDe(m), m)
       IN memoria' = ("decodificada" :>
                         [i \in DOMAIN memoria["codificada"] |->
                             MapInverso(memoria["codificada"][i], inverso)])
                     @@ memoria
    /\ pc' = "ida_vuelta_fin"
    /\ UNCHANGED <<df_datos, n_clusters, df_prep, resultados, pasos, figuras,
                   excepcion, interpretados, pantalla, llamadas>>

NextIdaVuelta ==
    \/ Codificar
    \/ Decodificar

SpecIdaVuelta == InitIdaVuelta /\ [][NextIdaVuelta]_vars

-----------------------------------------------------------------------------
(* obtener_letra_a_indice applied to column letters *)

\* longest column letter handed to the conversion
MaxLargoLetra == 3

\* letters that make up the labels longer than two
LetrasLargas == {"A", "K", "Z"}

InitLetras ==
    /\ df_datos = None
    /\ n_clusters = 3
    /\ pc = "letras"
    /\ df_prep = None
    /\ resultados = <<>>
    /\ pasos = <<>>
    /\ figuras = <<>>
    /\ excepcion = ""
    /\ interpretados = {}
    /\ pantalla = <<>>
    /\ memoria = <<>>
    /\ llamadas = {}

\* one call of obtener_letra_a_indice (correlacion.py lines 27 and 63,
\* clusters.py lines 29, 51 and 71) with the empty label, a label of one or
\* two capital letters, or a longer label
ObtenerLetraAIndice ==
    /\ pc = "letras"
    /\ llamadas = {}
    /\ \E n \in 0..MaxLargoLetra :
          \E letra \in [1..n -> IF n <= 2 THEN Range(Mayusculas) ELSE LetrasLargas] :
             llamadas' = {[letra |-> letra, indice |-> obtener_letra_a_indice(letra)]}
    /\ UNCHANGED <<df_datos, n_clusters, pc, df_prep, resultados, pasos, figuras,
                   excepcion, interpretados, pantalla, memoria>>

NextLetras == ObtenerLetraAIndice

SpecLetras == InitLetras /\ [][NextLetras]_vars

-----------------------------------------------------------------------------
(* utils.interpretar_promedio, the five-band scale *)

\* variant: the band boundaries are resolved downwards (<= instead of <)
utils_interpretar_promedio_LimiteAbajo(valor) ==
    IF RLe(valor, Rat(3, 2)) THEN "Muy Desfavorable"
    ELSE IF RLe(valor, Rat(5, 2)) THEN "Desfavorable"
    ELSE IF RLe(valor, Rat(7, 2)) THEN "Neutral"
    ELSE IF RLe(valor, Rat(9, 2)) THEN "Favorable"
    ELSE "Muy Favorable"

utils_interpretar_promedio(valor) ==
    IF RLt(valor, Rat(3, 2)) THEN "Muy Desfavorable"
    ELSE IF RLt(valor, Rat(5, 2)) THEN "Desfavorable"
    ELSE IF RLt(valor, Rat(7, 2)) THEN "Neutral"
    ELSE IF RLt(valor, Rat(9, 2)) THEN "Favorable"
    ELSE "Muy Favorable"

\* scores handed to the five-band scale are the quarters -2/4 .. MaxCuartosUtils/4
MaxCuartosUtils == 22

PuntajesUtils == {Rat(n, 4) : n \in -2..MaxCuartosUtils}

InitInterpretarUtils ==
    /\ df_datos = None
    /\ n_clusters = 3
    /\ pc = "interpretar_utils"
    /\ df_prep = None
    /\ resultados = <<>>
    /\ pasos = <<>>
    /\ figuras = <<>>
    /\ excepcion = ""
    /\ interpretados = {}
    /\ pantalla = <<>>
    /\ memoria = <<>>
    /\ llamadas = {}

\* one call of utils.interpretar_promedio (clusters.py line 188)
InterpretarUtils ==
    /\ pc = "interpretar_utils"
    /\ Cardinality(interpretados) < 2
    /\ \E v \in PuntajesUtils :
          interpretados' = interpretados \cup
                              {[valor |-> v, banda |-> utils_interpretar_promedio(v)]}
    /\ UNCHANGED <<df_datos, n_clusters, pc, df_prep, resultados, pasos,
                   figuras, excepcion, pantalla, memoria, llamadas>>

NextInterpretarUtils == InterpretarUtils

SpecInterpretarUtils == InitInterpretarUtils /\ [][NextInterpretarUtils]_vars

-----------------------------------------------------------------------------
(* analisis_clusters on datasets that cover up to all seven dimensions     *)

MaxFilasPerfiles == 3
MaxKPerfiles == 2

\* one question column of every dimension, in configuration order
PreguntasPerfiles ==
    <<"1.1_A_GUSTO_TRABAJANDO_CON_OTRAS_GESTORAS", "2.1_LIDERAZGO_RESPESTUOSO",
      "3.1_GESTORAS_COMPROMETIDAS", "4.1_LABOR_VALORADA",
      "5.1_DIALOGO_CON_RESPETO", "6.1_INSUMOS_HERRAMIENTAS_NECESARIAS",
      "7.1_MOMENTOS_DE_PAUSA">>

\* the answer a respondent typed for a code; 0 stands for a blank answer
RespuestaDeCodigo(n) ==
    IF n = 3 THEN StrCell("DE ACUERDO")
    ELSE IF n = 2 THEN StrCell("NI DEACUERDO, NI EN DESACUERDO")
    ELSE IF n = 1 THEN StrCell("EN DESACUERDO")
    ELSE NaN

\* the respondents that datasets of the profiler are made of: the answer
\* to each of the seven questions, as its code
PaletaPerfiles ==
    <<<<3, 3, 3, 3, 3, 3, 3>>,
      <<3, 2, 1, 3, 2, 1, 2>>,
      <<1, 2, 3, 1, 2, 3, 0>>,
      <<1, 1, 1, 2, 2, 3, 3>>,
      <<2, 2, 2, 2, 2, 2, 2>>>>

\* the sheets differ in the dimensions they cover and in whether they name
\* the kitchen
ConjuntosPerfiles ==
    {Range(PreguntasPerfiles) \cup {"NOMBRE_COMEDOR"},
     Range(PreguntasPerfiles),
     Range(SubSeq(PreguntasPerfiles, 1, 4)) \cup {"NOMBRE_COMEDOR"},
     Range(SubSeq(PreguntasPerfiles, 1, 2)) \cup {"NOMBRE_COMEDOR"},
     {PreguntasPerfiles[7], "NOMBRE_COMEDOR"},
     {"NOMBRE_COMEDOR"}}

PosicionPregunta(c) == CHOOSE j \in DOMAIN PreguntasPerfiles : PreguntasPerfiles[j] = c

DatasetPerfiles(cols, idx) ==
    DF(cols, [i \in DOMAIN idx |->
                [c \in cols |->
                    IF c = "NOMBRE_COMEDOR" THEN NombreDeFila(i)
                    ELSE RespuestaDeCodigo(PaletaPerfiles[idx[i]][PosicionPregunta(c)])]])

\* every labelling of the rows is explored, so the rows are enumerated up
\* to their order
RECURSIVE IndicesNoDecrecientes(_, _, _)
IndicesNoDecrecientes(n, desde, hasta) ==
    IF n = 0 THEN {<<>>}
    ELSE UNION {{<<k>> \o t : t \in IndicesNoDecrecientes(n - 1, k, hasta)} :
                  k \in desde..hasta}

\* the state at line 461, as in InitClusters
InitPerfiles ==
    /\ \E cols \in ConjuntosPerfiles : \E n \in 1..MaxFilasPerfiles :
          \E idx \in IndicesNoDecrecientes(n, 1, Len(PaletaPerfiles)) :
             df_datos = DatasetPerfiles(cols, idx)
    /\ n_clusters \in 2..MaxKPerfiles
    /\ pc = "clusters"
    /\ df_prep = preparar_datos(df_datos)
    /\ resultados = <<>>
    /\ pasos = <<>>
    /\ figuras = <<>>
    /\ excepcion = ""
    /\ interpretados = {}
    /\ pantalla = <<>>
    /\ memoria = <<>>
    /\ llamadas = {}

SpecPerfiles == InitPerfiles /\ [][NextClusters]_vars

-----------------------------------------------------------------------------
(* The correlation page: correlacion.mostrar_analisis_correlacion          *)

\* lines 54-67: the survey columns of the prepared sheet, by name or else
\* by the position of the letter, in configuration order
RECURSIVE ColumnasEncuestaDesde(_, _)
ColumnasEncuestaDesde(df_analisis, k) ==
    IF k > Len(GRUPOS_COLUMNAS) THEN <<>>
    ELSE LET item == GRUPOS_COLUMNAS[k]
             indice == obtener_letra_a_indice(item.letra)
             resto == ColumnasEncuestaDesde(df_analisis, k + 1)
         IN IF item.nombre \in df_analisis.cols THEN <<item.nombre>> \o resto
            ELSE IF indice >= 0 /\ indice < Len(df_analisis.columns)
                 THEN <<df_analisis.columns[indice + 1]>> \o resto
                 ELSE resto

columnas_encuesta(df_analisis) == ColumnasEncuestaDesde(df_analisis, 1)

\* line 81, the column with its missing values as 0
ValoresCorrelacion(df, col) == [i \in DOMAIN df.rows |-> FillNa(df.rows[i][col], 0).n]

\* Series.rank(): twice the average rank of every value of the column
RangosDobles(v) ==
    [i \in DOMAIN v |->
        2 * Cardinality({j \in DOMAIN v : v[j] < v[i]})
        + Cardinality({j \in DOMAIN v : v[j] = v[i]}) + 1]

\* sum of the products of the deviations of two rank columns from their
\* mean, which is Len + 1 in doubled ranks
RECURSIVE SumaProductosRangos(_, _, _)
SumaProductosRangos(ra, rb, i) ==
    IF i > Len(ra) THEN 0
    ELSE (ra[i] - (Len(ra) + 1)) * (rb[i] - (Len(ra) + 1))
         + SumaProductosRangos(ra, rb, i + 1)

\* line 85, DataFrame.corr(method='spearman'): the covariance of the ranks
\* over the root of the product of their variances.  The columns of the
\* sheets explored here have no repeated value, so that the two variances
\* are the same number and the root is that number; a column of a single
\* row has variance 0 and the coefficient is NaN
Spearman(df, a, b) ==
    LET ra == RangosDobles(ValoresCorrelacion(df, a))
        rb == RangosDobles(ValoresCorrelacion(df, b))
    IN Rat(SumaProductosRangos(ra, rb, 1), SumaProductosRangos(ra, ra, 1))

\* var.replace('_', ' ') for the names of config.py that the sheets carry
SinGuiones ==
    ("LIDERAZGO_GESTORA" :> "LIDERAZGO GESTORA") @@
    ("OPORTUNIDADES_CRECIMIENTO" :> "OPORTUNIDADES CRECIMIENTO") @@
    ("DECISIONES_LIDER" :> "DECISIONES LIDER") @@
    ("ESPACIOS_RETROALIMENTACION" :> "ESPACIOS RETROALIMENTACION") @@
    ("RETROALIMENTACION_ADECUADA" :> "RETROALIMENTACION ADECUADA")

\* lines 175-187
interpret_correlation_strength(coef) ==
    IF RLe(Rat(9, 10), RAbs(coef)) THEN "Muy alta"
    ELSE IF RLe(Rat(7, 10), RAbs(coef)) THEN "Alta"
    ELSE IF RLe(Rat(4, 10), RAbs(coef)) THEN "Moderada"
    ELSE IF RLe(Rat(2, 10), RAbs(coef)) THEN "Baja"
    ELSE "Muy baja"

\* lines 136-149: the row of the pair (i, j) of the matrix
FilaCorrelacion(df, cols, i, j) ==
    LET coef == Spearman(df, cols[i], cols[j])
    IN [Variable1 |-> SinGuiones[cols[i]],
        Variable2 |-> SinGuiones[cols[j]],
        Coeficiente |-> coef,
        Tipo |-> IF RLt(Rat(0, 1), coef) THEN "Positiva" ELSE "Negativa",
        Fuerza |-> interpret_correlation_strength(coef)]

\* lines 133-149: for i in range(n), for j in range(i+1, n)
RECURSIVE ParesDesde(_, _, _, _)
ParesDesde(df, cols, i, j) ==
    IF i > Len(cols) THEN <<>>
    ELSE IF j > Len(cols) THEN ParesDesde(df, cols, i + 1, i + 2)
    ELSE <<FilaCorrelacion(df, cols, i, j)>> \o ParesDesde(df, cols, i, j + 1)

todas_correlaciones(df, cols) == ParesDesde(df, cols, 1, 2)

\* x goes before h in descending order; a missing coefficient goes last
VaAntes(x, h) ==
    \/ IsNaN(h.Coeficiente) /\ ~IsNaN(x.Coeficiente)
    \/ RLt(h.Coeficiente, x.Coeficiente)

RECURSIVE InsertarPorCoeficiente(_, _)
InsertarPorCoeficiente(s, x) ==
    IF s = <<>> THEN <<x>>
    ELSE IF VaAntes(x, Head(s)) THEN <<x>> \o s
    ELSE <<Head(s)>> \o InsertarPorCoeficiente(Tail(s), x)

RECURSIVE OrdenarPorCoeficienteAcc(_, _)
OrdenarPorCoeficienteAcc(s, acc) ==
    IF s = <<>> THEN acc
    ELSE OrdenarPorCoeficienteAcc(Tail(s), InsertarPorCoeficiente(acc, Head(s)))

\* line 154, sort_values(by='Coeficiente', ascending=False).  The default
\* kind is quicksort, which numpy runs as an insertion sort on the short
\* tables explored here: rows of equal coefficient keep their order
sort_values_Coeficiente(s) == OrdenarPorCoeficienteAcc(s, <<>>)

MaxFilasCorr == 3
MaxColumnasCorr == 3

\* the label of config.py for a code
RespuestaConfig(n) ==
    IF n = 1 THEN StrCell("TOTALMENTE EN DESACUERDO")
    ELSE IF n = 2 THEN StrCell("EN DESACUERDO")
    ELSE IF n = 3 THEN StrCell("NI DE ACUERDO NI DESACUERDO")
    ELSE IF n = 4 THEN StrCell("DE ACUERDO")
    ELSE StrCell("TOTALMENTE DE ACUERDO")

\* the ways n respondents can give n different answers to a question
Permutaciones(n) == {f \in [1..n -> 1..n] : \A i, j \in 1..n : f[i] = f[j] => i = j}

\* the sheet with the first m questions of config.py, the respondents in
\* the order of their answer to the first one, with or without the name of
\* the kitchen in front
HojaCorrelacion(con_nombre, m, codigos) ==
    LET preguntas == [k \in 1..m |-> GRUPOS_COLUMNAS[k].nombre]
        columns == IF con_nombre THEN <<"NOMBRE_COMEDOR">> \o preguntas ELSE preguntas
        n == IF m = 0 THEN Len(codigos) ELSE Len(codigos[1])
    IN DFO(columns,
           [i \in 1..n |->
               [c \in Range(columns) |->
                   IF c = "NOMBRE_COMEDOR" THEN StrCell("Comedor A")
                   ELSE LET k == CHOOSE k \in 1..m : preguntas[k] = c
                        IN RespuestaConfig(codigos[k][i])]])

InitCorrelacion ==
    /\ \E con_nombre \in BOOLEAN : \E m \in 0..MaxColumnasCorr :
          \E n \in 0..MaxFilasCorr :
             /\ con_nombre \/ m > 0
             /\ IF m = 0
                THEN df_datos = HojaCorrelacion(con_nombre, 0, [i \in 1..n |-> 0])
                ELSE \E otras \in [2..m -> Permutaciones(n)] :
                        df_datos = HojaCorrelacion(con_nombre, m,
                                      [k \in 1..m |-> IF k = 1 THEN [i \in 1..n |-> i]
                                                      ELSE otras[k]])
    /\ n_clusters = 3
    /\ pc = "correlacion"
    /\ df_prep = None
    /\ resultados = <<>>
    /\ pasos = <<>>
    /\ figuras = <<>>
    /\ excepcion = ""
    /\ interpretados = {}
    /\ pantalla = <<>>
    /\ memoria = <<>>
    /\ llamadas = {}

\* lines 41-43
CorrelacionSinDatos ==
    /\ pc = "correlacion"
    /\ Empty(df_datos)
    /\ pantalla' = pantalla \o <<[st |-> "error", texto |-> "No hay datos para analizar."]>>
    /\ pc' = "correlacion_fin"
    /\ UNCHANGED <<df_datos, n_clusters, df_prep, resultados, pasos, figuras,
                   excepcion, interpretados, memoria, llamadas>>

\* lines 48-72
CorrelacionSinColumnas ==
    /\ pc = "correlacion"
    /\ ~Empty(df_datos)
    /\ LET df_analisis == preparar_dataframe(df_datos)
       IN /\ columnas_encuesta(df_analisis) = <<>>
          /\ df_prep' = df_analisis
    /\ pantalla' = pantalla \o
          <<[st |-> "error",
             texto |-> "No se encontraron columnas de encuesta para analizar."]>>
    /\ pc' = "correlacion_fin"
    /\ UNCHANGED <<df_datos, n_clusters, resultados, pasos, figuras,
                   excepcion, interpretados, memoria, llamadas>>

\* lines 48-169 when a single survey column is found: no pair, line 169
CorrelacionSinPares ==
    /\ pc = "correlacion"
    /\ ~Empty(df_datos)
    /\ LET df_analisis == preparar_dataframe(df_datos)
           cols == columnas_encuesta(df_analisis)
       IN /\ cols # <<>>
          /\ todas_correlaciones(df_analisis, cols) = <<>>
          /\ df_prep' = df_analisis
    /\ pantalla' = pantalla \o
          <<[st |-> "write", texto |-> "No se encontraron correlaciones."]>>
    /\ pc' = "correlacion_fin"
    /\ UNCHANGED <<df_datos, n_clusters, resultados, pasos, figuras,
                   excepcion, interpretados, memoria, llamadas>>

\* lines 48-166: the table of all pairs, sorted, is shown
MostrarAnalisisCorrelacion ==
    /\ pc = "correlacion"
    /\ ~Empty(df_datos)
    /\ LET df_analisis == preparar_dataframe(df_datos)
           cols == columnas_encuesta(df_analisis)
           todas == todas_correlaciones(df_analisis, cols)
       IN /\ todas # <<>>
          /\ df_prep' = df_analisis
          /\ resultados' = [df_todas |-> sort_values_Coeficiente(todas)]
    /\ pantalla' = pantalla \o <<[st |-> "dataframe", texto |-> "df_todas"]>>
    /\ pc' = "correlacion_fin"
    /\ UNCHANGED <<df_datos, n_clusters, pasos, figuras,
                   excepcion, interpretados, memoria, llamadas>>

NextCorrelacion ==
    \/ CorrelacionSinDatos
    \/ CorrelacionSinColumnas
    \/ CorrelacionSinPares
    \/ MostrarAnalisisCorrelacion

SpecCorrelacion == InitCorrelacion /\ [][NextCorrelacion]_vars

-----------------------------------------------------------------------------
(* The page script app.py after the analysis call: which sections it shows  *)

MaxKPaginas == 4

\* app.py lines 159-162: the options of the sidebar radio
OpcionesAnalisis ==
    <<"Vista General", "Dimensiones", "Correlaciones", "Clusters",
      "Comparativos", "Desempeño Usuarios">>

\* the heading each branch of lines 358-997 shows first (lines 359, 512, 636,
\* 833, 873, 899)
EncabezadoDeSeccion ==
    [Demografica |-> "Distribución Demográfica",
     Dimensiones |-> "Análisis por Dimensiones",
     Correlaciones |-> "Análisis Comparativo de Liderazgo por Rol",
     Clusters |-> "Análisis de Clusters",
     Comparativos |-> "Análisis Comparativo",
     Usuarios |-> "Análisis de Desempeño de Usuarios"]

SectionHeader(texto) == [st |-> "markdown", texto |-> texto]

\* the script at line 194: the sidebar widgets (159-178) have bound
\* tipo_analisis, n_clusters and show_details, the dataset is loaded and not
\* empty (184-186) and the calls of lines 191-192 have returned; of the result
\* dict only the entries that lines 194-997 read before a heading are kept
InitPaginas ==
    /\ \E cols \in ConjuntosPerfiles : df_datos = DatasetPerfiles(cols, <<1, 2>>)
    /\ n_clusters \in 2..MaxKPaginas
    /\ pc = "pagina"
    /\ df_prep = preparar_datos(df_datos)
    /\ resultados = ("datos_originales" :> df_datos)
                    @@ ("datos_preparados" :> preparar_datos(df_datos))
    /\ pasos = <<>>
    /\ figuras = <<>>
    /\ excepcion = ""
    /\ interpretados = {}
    /\ pantalla = <<>>
    /\ \E tipo \in Range(OpcionesAnalisis) : \E detalles \in BOOLEAN :
          memoria = [tipo_analisis |-> tipo, show_details |-> detalles]
    /\ llamadas = {}

\* lines 195-249: the header and the four metrics of the overview
MetricasVistaGeneral ==
    /\ pc = "pagina"
    /\ pantalla' = IF memoria.tipo_analisis = "Vista General"
                   THEN Append(pantalla, SectionHeader("Comedores comunitarios"))
                   ELSE pantalla
    /\ pc' = "distribucion"
    /\ UNCHANGED <<df_datos, n_clusters, df_prep, resultados, pasos, figuras,
                   excepcion, interpretados, memoria, llamadas>>

\* lines 250-355: at the indentation of the `if` of line 195, not inside it
DistribucionGeneral ==
    /\ pc = "distribucion"
    /\ pantalla' = Append(pantalla,
                          [st |-> "subheader",
                           texto |-> "Distribución General de Respuestas"])
    /\ pc' = "detalles"
    /\ UNCHANGED <<df_datos, n_clusters, df_prep, resultados, pasos, figuras,
                   excepcion, interpretados, memoria, llamadas>>

\* lines 358-997: `if show_details:` and the `elif tipo_analisis == ...`
\* branches that belong to it (511, 635, 832, 872, 898); there is no else
SeccionDeDetalles ==
    /\ pc = "detalles"
    /\ LET tipo == memoria.tipo_analisis
           e == EncabezadoDeSeccion
       IN pantalla' =
            IF memoria.show_details
            THEN Append(pantalla, SectionHeader(e.Demografica))
            ELSE IF tipo = "Dimensiones"
            THEN Append(pantalla, SectionHeader(e.Dimensiones))
            ELSE IF tipo = "Correlaciones"
            THEN Append(pantalla, SectionHeader(e.Correlaciones))
            ELSE IF tipo = "Clusters"
            THEN Append(pantalla, SectionHeader(e.Clusters))
            ELSE IF tipo = "Comparativos"
            THEN Append(pantalla, SectionHeader(e.Comparativos))
            ELSE IF tipo = "Desempeño Usuarios"
            THEN Append(pantalla, SectionHeader(e.Usuarios))
            ELSE pantalla
    /\ pc' = "pagina_fin"
    /\ UNCHANGED <<df_datos, n_clusters, df_prep, resultados, pasos, figuras,
                   excepcion, interpretados, memoria, llamadas>>

NextPaginas ==
    \/ MetricasVistaGeneral
    \/ DistribucionGeneral
    \/ SeccionDeDetalles

SpecPaginas == InitPaginas /\ [][NextPaginas]_vars

-----------------------------------------------------------------------------
(* The clustering page: clusters.mostrar_analisis_clusters                 *)

MaxFilasConglomerados == 12

MaxColumnasConglomerados == 2

\* COLUMNAS_UBICACION["NOMBRE_COMEDOR"] of config.py
LetraNombreComedor == <<"F">>

\* lines 48-59: without a column at the position of NOMBRE_COMEDOR the
\* working copy gets the column COMEDOR_ID
ConIdentificador(df, df_analisis) ==
    IF obtener_letra_a_indice(LetraNombreComedor) < Len(df.columns)
    THEN df_analisis
    ELSE DFO(Append(df_analisis.columns, "COMEDOR_ID"),
             [i \in DOMAIN df_analisis.rows |->
                 [c \in df_analisis.cols \cup {"COMEDOR_ID"} |->
                     IF c = "COMEDOR_ID" THEN IntCell(i)
                     ELSE df_analisis.rows[i][c]]])

\* lines 61-77: the survey columns, by name or else by position
todas_columnas(df_analisis) == ColumnasEncuestaDesde(df_analisis, 1)

\* line 92
max_clusters(df_analisis) == Min(10, Len(df_analisis.rows) - 1)

\* the values st.slider can return: the range is widened to hold the
\* default when the default lies outside min_value..max_value
slider(min_value, max_value, value) == Min(min_value, value)..Max(max_value, value)

\* line 117
ClustersPorDefecto == 3

\* a sheet of n respondents with the first m questions of config.py
HojaConglomerados(con_nombre, m, n) ==
    HojaCorrelacion(con_nombre, m,
                    IF m = 0 THEN [i \in 1..n |-> 0]
                    ELSE [k \in 1..m |-> [i \in 1..n |-> ((i + k) % 5) + 1]])

\* the page is opened on a sheet; the two checkboxes are as the user left them
InitConglomerados ==
    /\ \E con_nombre \in BOOLEAN : \E m \in 0..MaxColumnasConglomerados :
          \E n \in 0..MaxFilasConglomerados :
             /\ con_nombre \/ m > 0
             /\ df_datos = HojaConglomerados(con_nombre, m, n)
    /\ n_clusters = 0
    /\ pc = "conglomerados"
    /\ df_prep = None
    /\ resultados = <<>>
    /\ pasos = <<>>
    /\ figuras = <<>>
    /\ excepcion = ""
    /\ interpretados = {}
    /\ pantalla = <<>>
    /\ \E elbow \in BOOLEAN : \E deslizador \in BOOLEAN :
          memoria = [show_elbow_chart |-> elbow, show_slider |-> deslizador]
    /\ llamadas = {}

\* lines 40-42
ConglomeradosSinDatos ==
    /\ pc = "conglomerados"
    /\ Empty(df_datos)
    /\ pantalla' = pantalla \o <<[st |-> "error", texto |-> "No hay datos para analizar."]>>
    /\ pc' = "conglomerados_fin"
    /\ UNCHANGED <<df_datos, n_clusters, df_prep, resultados, pasos, figuras,
                   excepcion, interpretados, memoria, llamadas>>

\* lines 44-81
ConglomeradosSinColumnas ==
    /\ pc = "conglomerados"
    /\ ~Empty(df_datos)
    /\ LET df_analisis == ConIdentificador(df_datos, preparar_dataframe(df_datos))
       IN /\ todas_columnas(df_analisis) = <<>>
          /\ df_prep' = df_analisis
    /\ pantalla' = pantalla \o
          <<[st |-> "header", texto |-> "Análisis de Conglomerados (Clustering)"],
            [st |-> "error",
             texto |-> "No se encontraron columnas de encuesta para analizar."]>>
    /\ pc' = "conglomerados_fin"
    /\ UNCHANGED <<df_datos, n_clusters, resultados, pasos, figuras,
                   excepcion, interpretados, memoria, llamadas>>

\* lines 44-95: fewer than three rows
ConglomeradosInsuficientes ==
    /\ pc = "conglomerados"
    /\ ~Empty(df_datos)
    /\ LET df_analisis == ConIdentificador(df_datos, preparar_dataframe(df_datos))
       IN /\ todas_columnas(df_analisis) # <<>>
          /\ max_clusters(df_analisis) < 2
          /\ df_prep' = df_analisis
    /\ pantalla' = pantalla \o
          <<[st |-> "header", texto |-> "Análisis de Conglomerados (Clustering)"],
            [st |-> "subheader", texto |-> "Determinación del número óptimo de clusters"],
            [st |-> "error",
             texto |-> "No hay suficientes datos para realizar clustering (mínimo 3 observaciones)."]>>
    /\ pc' = "conglomerados_fin"
    /\ UNCHANGED <<df_datos, n_clusters, resultados, pasos, figuras,
                   excepcion, interpretados, memoria, llamadas>>

\* lines 44-124: the elbow loop fits 1..max_clusters clusters, then KMeans is
\* fitted with the default count or with the slider's value
ConglomeradosKMeans ==
    /\ pc = "conglomerados"
    /\ ~Empty(df_datos)
    /\ LET df_analisis == ConIdentificador(df_datos, preparar_dataframe(df_datos))
           columnas == todas_columnas(df_analisis)
           maximo == max_clusters(df_analisis)
       IN /\ columnas # <<>>
          /\ maximo >= 2
          /\ df_prep' = df_analisis
          /\ resultados' = [todas_columnas |-> columnas, max_clusters |-> maximo]
          /\ pasos' = [k \in 1..maximo |-> k]
          /\ IF memoria.show_slider
             THEN n_clusters' \in slider(2, maximo, 3)
             ELSE n_clusters' = ClustersPorDefecto
    /\ pantalla' = pantalla \o
          <<[st |-> "header", texto |-> "Análisis de Conglomerados (Clustering)"],
            [st |-> "subheader", texto |-> "Determinación del número óptimo de clusters"]>>
          \o (IF memoria.show_elbow_chart
              THEN <<[st |-> "plotly_chart", texto |-> "fig_elbow"]>> ELSE <<>>)
    /\ pc' = "agrupado"
    /\ UNCHANGED <<df_datos, figuras, excepcion, interpretados, memoria, llamadas>>

\* lines 126-220: PCA needs two survey columns; its exception is shown by
\* the handler of lines 218-220
ConglomeradosVisualizar ==
    /\ pc = "agrupado"
    /\ IF Len(resultados.todas_columnas) < 2
       THEN /\ excepcion' = "ValueError"
            /\ pantalla' = pantalla \o
                  <<[st |-> "error", texto |-> "Error al realizar el análisis de clusters: "],
                    [st |-> "code", texto |-> "str(e)"]>>
       ELSE /\ pantalla' = pantalla \o
                  <<[st |-> "subheader", texto |-> "Visualización de clusters"]>>
            /\ UNCHANGED excepcion
    /\ pc' = "conglomerados_fin"
    /\ UNCHANGED <<df_datos, n_clusters, df_prep, resultados, pasos, figuras,
                   interpretados, memoria, llamadas>>

NextConglomerados ==
    \/ ConglomeradosSinDatos
    \/ ConglomeradosSinColumnas
    \/ ConglomeradosInsuficientes
    \/ ConglomeradosKMeans
    \/ ConglomeradosVisualizar

SpecConglomerados == InitConglomerados /\ [][NextConglomerados]_vars

-----------------------------------------------------------------------------
(* preparar_datos applied to a sheet and then to its own result            *)

\* analisis_dior.preparar_datos(df_prep), lines 81-92, on the frame the
\* first call returned
LlamarPrepararDatosOtraVez ==
    /\ pc = "preparar_datos_fin"
    /\ resultados' =
          IF df_prep.none \/ Empty(df_prep) THEN ("datos_preparados" :> None)
          ELSE ("datos_preparados" :>
                   [df_prep EXCEPT !.rows = preparar_datos(df_prep).rows])
    /\ pc' = "preparar_datos_otra_vez_fin"
    /\ UNCHANGED <<df_datos, n_clusters, df_prep, pasos, figuras, excepcion,
                   interpretados, pantalla, memoria, llamadas>>

NextRecodificar ==
    \/ LlamarPrepararDatos
    \/ LlamarPrepararDatosOtraVez

SpecRecodificar == InitPreparar /\ [][NextRecodificar]_vars

-----------------------------------------------------------------------------
(* user_performance_analysis.analizar_desempeno_usuarios                   *)

MaxFilasUsuarios == 2

\* the lower-case letter of every upper-case letter
EnMinuscula ==
    [c \in Range(Mayusculas) |->
        Minusculas[CHOOSE k \in DOMAIN Mayusculas : Mayusculas[k] = c]]

LowerChar(c) == IF c \in DOMAIN EnMinuscula THEN EnMinuscula[c] ELSE c

\* str.lower()
Lower(chars) == [i \in DOMAIN chars |-> LowerChar(chars[i])]

\* the characters of the column names whose spelling the date search reads
LetrasDeColumna ==
    ("USER" :> <<"U", "S", "E", "R">>)
    @@ ("FECHA" :> <<"F", "E", "C", "H", "A">>)
    @@ ("Dia de visita" :>
           <<"D", "i", "a", " ", "d", "e", " ", "v", "i", "s", "i", "t", "a">>)
    @@ ("NOMBRE_COMEDOR" :>
           <<"N", "O", "M", "B", "R", "E", "_", "C", "O", "M", "E", "D", "O", "R">>)

\* line 102
posibles_columnas_fecha ==
    <<"FECHA", "DATE", "FECHA_VISITA", "FECHA_REGISTRO", "DIA", "TIMESTAMP",
      "CREATED_AT">>

\* line 113
PareceFecha(col) ==
    LET minusculas == Lower(LetrasDeColumna[col])
    IN \/ Contains(minusculas, <<"f", "e", "c", "h", "a">>)
       \/ Contains(minusculas, <<"d", "a", "t", "e">>)
       \/ Contains(minusculas, <<"d", "a", "y">>)
       \/ Contains(minusculas, <<"d", "i", "a">>)

\* lines 103-115: the date column, or "" for None
columna_fecha(df_usuarios) ==
    LET conocidas == Existentes(posibles_columnas_fecha, df_usuarios.cols)
        parecidas == SelectSeq(df_usuarios.columns, PareceFecha)
    IN IF conocidas # <<>> THEN Head(conocidas)
       ELSE IF parecidas # <<>> THEN Head(parecidas)
       ELSE ""

\* variant: only missing users are dropped, the empty text is kept
MascaraUsuario_SoloNotna(df) ==
    [i \in DOMAIN df.rows |-> df.rows[i]["USER"].t # "nan"]

\* line 30: df['USER'].notna() & (df['USER'] != '')
MascaraUsuario(df) ==
    [i \in DOMAIN df.rows |-> df.rows[i]["USER"].t # "nan" /\ df.rows[i]["USER"].s # <<>>]

\* lines 30 and 36: the rows with a user, the user trimmed and in upper case
df_usuarios_de(df) ==
    LET filas == FiltrarDesde(df.rows, MascaraUsuario(df), 1)
    IN DFO(df.columns,
           [i \in DOMAIN filas |->
               [filas[i] EXCEPT !["USER"] = TxtCell(Upper(Strip(@.s)))]])

UsuariosDe(dfu) == {dfu.rows[i]["USER"].s : i \in DOMAIN dfu.rows}

FilasDeUsuario(dfu, usuario) ==
    LET suya(fila) == fila["USER"].s = usuario IN SelectSeq(dfu.rows, suya)

\* lines 39-40: value_counts of the users
conteo_por_usuario(dfu) == [u \in UsuariosDe(dfu) |-> Len(FilasDeUsuario(dfu, u))]

\* grupo[col]: a column of the rows of one user
ColumnaDeGrupo(grupo, col) == [i \in DOMAIN grupo |-> grupo[i][col]]

\* lines 59-95
AnalisisCompletitud(dfu, usuario) ==
    LET grupo == FilasDeUsuario(dfu, usuario)
        total_posibles == Cardinality(TodasPreguntasConfig) * Len(grupo)
        respondidas ==
            Cardinality({<<i, p>> \in (DOMAIN grupo) \X (TodasPreguntasConfig \cap dfu.cols) :
                            grupo[i][p].t # "nan"})
    IN [Registros |-> Len(grupo),
        ComedoresVisitados |-> IF "NOMBRE_COMEDOR" \in dfu.cols
                               THEN NUnique(ColumnaDeGrupo(grupo, "NOMBRE_COMEDOR")) ELSE 0,
        ComunasVisitadas |-> IF "COMUNA" \in dfu.cols THEN NUnique(ColumnaDeGrupo(grupo, "COMUNA")) ELSE 0,
        NodosVisitados |-> IF "NODO" \in dfu.cols THEN NUnique(ColumnaDeGrupo(grupo, "NODO")) ELSE 0,
        Completitud |-> Rat(respondidas * 100, total_posibles),
        PromedioRespuestasPorComedor |-> Rat(respondidas, Len(grupo))]

\* the date texts of the sheets: day, weekday and UTC offset ("" for none)
Calendario ==
    ("2024-03-01" :> [fecha_corta |-> "01/03/2024", dia_semana |-> "Friday", zona |-> ""])
    @@ ("2024-03-02" :> [fecha_corta |-> "02/03/2024", dia_semana |-> "Saturday", zona |-> ""])
    @@ ("2024-03-01 10:00:00-05:00" :>
           [fecha_corta |-> "01/03/2024", dia_semana |-> "Friday", zona |-> "-05:00"])
    @@ ("2024-03-02 10:00:00+01:00" :>
           [fecha_corta |-> "02/03/2024", dia_semana |-> "Saturday", zona |-> "+01:00"])

EsFecha(c) == c.t = "str" /\ c.s \in DOMAIN Calendario

\* a column whose dates do not share one UTC offset
ZonasMezcladas(dfu, col) ==
    Cardinality({Calendario[dfu.rows[i][col].s].zona :
                    i \in {j \in DOMAIN dfu.rows : EsFecha(dfu.rows[j][col])}}) > 1

\* lines 126 and 135: rows whose text pd.to_datetime(errors='coerce') reads
\* as a date (the pattern of line 130 finds the same day in each of them)
df_fechas_validas(dfu, col) ==
    LET valida(fila) == EsFecha(fila[col]) IN SelectSeq(dfu.rows, valida)

\* lines 139-172: the four entries of the analysis by date
AnalisisPorFecha(dfu, col) ==
    LET validas == df_fechas_validas(dfu, col)
        usuarios == {validas[i]["USER"].s : i \in DOMAIN validas}
        dias(u) == {Calendario[validas[i][col].s].fecha_corta :
                       i \in {j \in DOMAIN validas : validas[j]["USER"].s = u}}
        registros_por_dia ==
            [par \in {<<Calendario[validas[i][col].s].dia_semana, validas[i]["USER"].s>> :
                         i \in DOMAIN validas} |->
                Cardinality({i \in DOMAIN validas :
                                /\ Calendario[validas[i][col].s].dia_semana = par[1]
                                /\ validas[i]["USER"].s = par[2]})]
        conteo == conteo_por_usuario(dfu)
    IN ("registros_por_dia_semana" :> registros_por_dia)
       @@ ("promedio_por_dia_usuario" :>
              [par \in DOMAIN registros_por_dia |-> Rat(registros_por_dia[par], 1)])
       @@ ("eficiencia_por_usuario" :>
              [u \in usuarios |->
                  [DiasDeVisita |-> Cardinality(dias(u)),
                   CantidadDeRegistros |-> conteo[u],
                   PromedioRegistrosPorDia |-> Rat(conteo[u], Cardinality(dias(u)))]])
       @@ ("columna_fecha_usada" :> col)

\* the result of the call; mezcla says what pd.to_datetime does with a
\* column of mixed UTC offsets: "objeto" (a column of objects, on which
\* .dt raises AttributeError) or "error" (ValueError, so lines 127-132 run)
analizar_desempeno_usuarios(df, mezcla) ==
    IF "USER" \notin df.cols
    THEN ("error" :> "No se encontró la columna USER en los datos")
    ELSE
    LET dfu == df_usuarios_de(df)
        col == columna_fecha(dfu)
        basicas ==
            ("conteo_por_usuario" :> conteo_por_usuario(dfu))
            @@ ("total_usuarios" :> Cardinality(UsuariosDe(dfu)))
            @@ ("total_registros" :> Len(dfu.rows))
            @@ ("analisis_completitud" :>
                   [u \in UsuariosDe(dfu) |-> AnalisisCompletitud(dfu, u)])
    IN IF dfu.rows = <<>>
       THEN ("error" :> "No hay datos de usuarios para analizar")
       ELSE IF col = ""
       THEN basicas @@ ("error_fecha" :> "No se encontró una columna de fecha en los datos")
       ELSE IF ZonasMezcladas(dfu, col) /\ mezcla = "objeto"
       THEN basicas @@ ("error_fecha" :> "Error al procesar fechas: ")
       ELSE IF df_fechas_validas(dfu, col) = <<>>
       THEN basicas @@ ("error_fecha" :> "No se pudieron procesar fechas válidas de la columna")
       ELSE basicas @@ AnalisisPorFecha(dfu, col)

\* users as typed in the sheet: "ana", " ANA ", "LUZ", the empty text, a
\* missing cell
UsuariosHoja ==
    {TxtCell(<<"a", "n", "a">>), TxtCell(<<" ", "A", "N", "A", " ">>),
     TxtCell(<<"L", "U", "Z">>), TxtCell(<<>>), NaN}

FechasHoja ==
    {StrCell("2024-03-01"), StrCell("2024-03-02"),
     StrCell("2024-03-01 10:00:00-05:00"), StrCell("2024-03-02 10:00:00+01:00"),
     StrCell("sin fecha"), NaN}

EncabezadosUsuarios ==
    {<<"USER", "FECHA">>, <<"USER", "Dia de visita">>, <<"USER", "NOMBRE_COMEDOR">>,
     <<"FECHA", "NOMBRE_COMEDOR">>}

ValoresUsuarios(col) ==
    IF col = "USER" THEN UsuariosHoja
    ELSE IF col = "NOMBRE_COMEDOR" THEN {StrCell("Comedor A")}
    ELSE FechasHoja

InitUsuarios ==
    /\ \E columns \in EncabezadosUsuarios : \E n \in 1..MaxFilasUsuarios :
          \E rows \in [1..n -> [Range(columns) ->
                                   UsuariosHoja \cup FechasHoja \cup {StrCell("Comedor A")}]] :
             /\ \A i \in 1..n : \A c \in Range(columns) : rows[i][c] \in ValoresUsuarios(c)
             /\ df_datos = DFO(columns, rows)
    /\ n_clusters = 3
    /\ pc = "usuarios"
    /\ df_prep = None
    /\ resultados = <<>>
    /\ pasos = <<>>
    /\ figuras = <<>>
    /\ excepcion = ""
    /\ interpretados = {}
    /\ pantalla = <<>>
    /\ memoria = <<>>
    /\ llamadas = {}

\* app.py line 908 and pages/desempeno_usuarios.py
AnalizarDesempenoUsuarios ==
    /\ pc = "usuarios"
    /\ \E mezcla \in {"objeto", "error"} :
          resultados' = analizar_desempeno_usuarios(df_datos, mezcla)
    /\ pc' = "usuarios_fin"
    /\ UNCHANGED <<df_datos, n_clusters, df_prep, pasos, figuras, excepcion,
                   interpretados, pantalla, memoria, llamadas>>

NextUsuarios == AnalizarDesempenoUsuarios

SpecUsuarios == InitUsuarios /\ [][NextUsuarios]_vars

-----------------------------------------------------------------------------
(* analisis_por_dimensiones on datasets that cover up to all seven         *)
(* dimensions                                                              *)

\* the prepared frame of a dataset of the profile palette is handed to the
\* analysis by dimension (analisis_dior.py line 455)
InitDimensiones ==
    /\ \E cols \in ConjuntosPerfiles : \E n \in 1..MaxFilasPerfiles :
          \E idx \in IndicesNoDecrecientes(n, 1, Len(PaletaPerfiles)) :
             df_datos = DatasetPerfiles(cols, idx)
    /\ n_clusters = 3
    /\ pc = "por_dimensiones"
    /\ df_prep = preparar_datos(df_datos)
    /\ resultados = <<>>
    /\ pasos = <<>>
    /\ figuras = <<>>
    /\ excepcion = ""
    /\ interpretados = {}
    /\ pantalla = <<>>
    /\ memoria = <<>>
    /\ llamadas = {}

\* lines 201-277
AnalisisPorDimensiones ==
    /\ pc = "por_dimensiones"
    /\ resultados' = ("dimensiones" :> analisis_por_dimensiones(df_prep))
    /\ pasos' = Append(pasos, "dimensiones")
    /\ pc' = "por_dimensiones_fin"
    /\ UNCHANGED <<df_datos, n_clusters, df_prep, figuras, excepcion, interpretados,
                   pantalla, memoria, llamadas>>

NextDimensiones == AnalisisPorDimensiones

SpecDimensiones == InitDimensiones /\ [][NextDimensiones]_vars

-----------------------------------------------------------------------------
(* Properties of the encoder, the entry point and the aggregator *)

EntradaVacia == df_datos.none \/ df_datos.cols = {} \/ df_datos.rows = <<>>

ColumnasPregunta == df_datos.cols \cap TodasPreguntasConfig

EsEtiqueta(c) == c.t = "str" /\ c.s \in {"DE ACUERDO", "NI DEACUERDO, NI EN DESACUERDO", "EN DESACUERDO"}

\* C1: every cell of a recognized question column is encoded as
\* vocabulary[label] when it holds a label of the 3-point vocabulary and as 0
\* otherwise (null, blank, unrecognized text); the encoder never raises.
C1_EncoderContract ==
    /\ excepcion # "ValueError"
    /\ ~df_prep.none =>
         \A i \in DOMAIN df_datos.rows : \A c \in ColumnasPregunta :
            LET raw == df_datos.rows[i][c]
            IN df_prep.rows[i][c] =
                  IF EsEtiqueta(raw) THEN IntCell(MAPEO_RESPUESTAS[raw.s])
                  ELSE IntCell(0)

\* a prepared frame holding an encoded label, an encoded unrecognized text
\* and an encoded null
C1_Witness ==
    /\ ~df_prep.none
    /\ \E i \in DOMAIN df_datos.rows : \E c \in ColumnasPregunta :
          df_datos.rows[i][c] = StrCell("DE ACUERDO") /\ df_prep.rows[i][c] = IntCell(3)
    /\ \E i \in DOMAIN df_datos.rows : \E c \in ColumnasPregunta :
          df_datos.rows[i][c] \in {StrCell("de acuerdo"), NaN}
          /\ df_prep.rows[i][c] = IntCell(0)

CincoPasos == <<"descriptivo", "dimensiones", "correlaciones", "clusters", "comparativo">>

\* C2: for every non-empty dataset the call runs the five analyses in the
\* order descriptive, dimensions, correlations, clusters, comparative and
\* returns a result holding all five outputs and both datasets.
C2_CincoAnalisisEnOrden ==
    (~EntradaVacia /\ pc \in {"returned", "raised", "visualizado"}) =>
        /\ pc # "raised"
        /\ pasos = CincoPasos
        /\ DOMAIN resultados = Range(CincoPasos) \cup {"datos_originales", "datos_preparados"}

\* C3: an absent or empty dataset gives the result {"error": message} without
\* raising and without running any analysis step, and generar_visualizaciones
\* hands back only the same error.
C3_ErrorSinExcepcion ==
    EntradaVacia =>
        /\ excepcion = ""
        /\ pasos = <<>>
        /\ df_prep.none
        /\ pc \in {"inicio", "returned", "visualizado"}
        /\ pc # "inicio" => /\ DOMAIN resultados = {"error"}
                            /\ resultados["error"] = "No se pudieron cargar los datos"
        /\ pc = "visualizado" => /\ DOMAIN figuras = {"error"}
                                 /\ figuras["error"] = resultados["error"]

\* the error result of a frame without columns, passed through
\* generar_visualizaciones
C3_Witness ==
    /\ pc = "visualizado"
    /\ ~df_datos.none
    /\ df_datos.cols = {}
    /\ df_datos.rows # <<>>
    /\ "error" \in DOMAIN figuras

RECURSIVE SumaFila(_, _)
SumaFila(row, cols) ==
    IF cols = {} THEN 0
    ELSE LET c == CHOOSE x \in cols : TRUE
         IN row[c].n + SumaFila(row, cols \ {c})

RECURSIVE SumaCodificada(_, _)
SumaCodificada(rows, cols) ==
    IF rows = <<>> THEN 0
    ELSE SumaFila(Head(rows), cols) + SumaCodificada(Tail(rows), cols)

TablaReportada == resultados["dimensiones"]["promedios_dimensiones"]

HayTabla == /\ "dimensiones" \in DOMAIN resultados
            /\ "promedios_dimensiones" \in DOMAIN resultados["dimensiones"]

PresentesDe(d) == Range(DIMENSIONES[d]) \cap df_datos.cols

EscenarioDosRespuestas ==
    DF({"1.1_A_GUSTO_TRABAJANDO_CON_OTRAS_GESTORAS"},
       <<("1.1_A_GUSTO_TRABAJANDO_CON_OTRAS_GESTORAS" :> StrCell("DE ACUERDO")),
         ("1.1_A_GUSTO_TRABAJANDO_CON_OTRAS_GESTORAS" :> StrCell("EN DESACUERDO"))>>)

\* C4: the score of every dimension with a present question column is the
\* sum of the encoded cells of its present columns divided by (respondents x
\* present columns), absent columns being left out of the divisor; two
\* respondents answering DE ACUERDO and EN DESACUERDO to a single-question
\* dimension score 2.
C4_PromedioSobrePresentes ==
    "dimensiones" \in DOMAIN resultados =>
        /\ \A d \in DOMAIN DIMENSIONES :
              PresentesDe(d) # {} =>
                 /\ HayTabla
                 /\ \E k \in DOMAIN TablaReportada :
                       /\ TablaReportada[k].Dimension = d
                       /\ TablaReportada[k].Promedio.den > 0
                       /\ TablaReportada[k].Promedio.num
                             * (Len(df_prep.rows) * Cardinality(PresentesDe(d)))
                          = TablaReportada[k].Promedio.den
                             * SumaCodificada(df_prep.rows, PresentesDe(d))
        /\ df_datos = EscenarioDosRespuestas =>
              /\ Len(TablaReportada) = 1
              /\ TablaReportada[1].Promedio = Rat(2, 1)
              /\ TablaReportada[1].Interpretacion = "Neutral"

\* Liderazgo reported from two of its three configured columns, with a
\* score that is not a whole number
C4_Witness ==
    /\ HayTabla
    /\ Cardinality(PresentesDe("Liderazgo")) = 2
    /\ \E k \in DOMAIN TablaReportada :
          /\ TablaReportada[k].Dimension = "Liderazgo"
          /\ TablaReportada[k].Promedio = Rat(9, 4)

TodasEtiquetas(d) ==
    \A i \in DOMAIN df_datos.rows : \A c \in PresentesDe(d) :
        EsEtiqueta(df_datos.rows[i][c])

RangoBanda(b) == CASE b = "Desfavorable" -> 0
                   [] b = "Neutral" -> 1
                   [] b = "Favorable" -> 2
                   [] OTHER -> -1

\* C6: a score below 1.5 is Desfavorable, a score from 1.5 up to but not
\* including 2.5 is Neutral, a score of 2.5 or more is Favorable, and a higher
\* score never gets a worse band.
C6_TresBandas ==
    /\ \A e \in interpretados :
          /\ RangoBanda(e.banda) >= 0
          /\ 2 * e.valor.num < 3 * e.valor.den => e.banda = "Desfavorable"
          /\ (2 * e.valor.num >= 3 * e.valor.den /\ 2 * e.valor.num < 5 * e.valor.den)
                => e.banda = "Neutral"
          /\ 2 * e.valor.num >= 5 * e.valor.den => e.banda = "Favorable"
    /\ \A e1, e2 \in interpretados :
          e1.valor.num * e2.valor.den <= e2.valor.num * e1.valor.den
             => RangoBanda(e1.banda) <= RangoBanda(e2.banda)

\* both boundary scores have been classified
C6_Witness ==
    {[valor |-> Rat(3, 2), banda |-> "Neutral"],
     [valor |-> Rat(5, 2), banda |-> "Favorable"]} = interpretados

-----------------------------------------------------------------------------
(* Properties of the role comparison *)

FaltanRequeridas == Range(columnas_requeridas) \ df_prep.cols

\* C7: when a required column is absent the result has the single key
\* 'error', its message names exactly the absent required columns, and no
\* count, global or per-entity output exists.
C7_ErrorNombraFaltantes ==
    (pc = "rol_fin" /\ FaltanRequeridas # {}) =>
        /\ DOMAIN resultados = {"error"}
        /\ Range(resultados["error"].unidas) = FaltanRequeridas
        /\ Len(resultados["error"].unidas) = Cardinality(FaltanRequeridas)

\* a frame lacking ROL and one leadership question has been refused
C7_Witness ==
    /\ pc = "rol_fin"
    /\ FaltanRequeridas = {"ROL", "2.2_OPORTUNIDAD_DE_PROPONER_IDEAS"}
    /\ "error" \in DOMAIN resultados

HayAnalisisComedores == pc = "rol_fin" /\ "analisis_comedores" \in DOMAIN resultados

AnalisisDe(c, p) == resultados["analisis_comedores"][c].analisis_preguntas[p]

RangoConcordancia(x) == CASE x = "Alta" -> 2
                          [] x = "Media" -> 1
                          [] x = "Baja" -> 0
                          [] OTHER -> -1

-----------------------------------------------------------------------------
(* Properties of the cluster profiler *)

HayPerfiles == pc = "clusters_fin" /\ "perfiles_clusters" \in DOMAIN resultados

EtiquetaDeFila(i) == resultados["clusters"].rows[i]["Cluster"]

RECURSIVE SumaMiembros(_, _)
SumaMiembros(perfiles, ids) ==
    IF ids = {} THEN 0
    ELSE LET c == CHOOSE x \in ids : TRUE
         IN perfiles[c].n_comedores + SumaMiembros(perfiles, ids \ {c})

\* C10: when clustering completes every respondent row carries exactly one
\* label in 0..k-1, a profile exists for exactly the labels 0..k-1, each
\* profile counts the rows carrying its label and the counts add up to the
\* number of respondent rows.
C10_ParticionDeClusters ==
    HayPerfiles =>
        LET perfiles == resultados["perfiles_clusters"]
            filas == resultados["clusters"].rows
        IN /\ Len(filas) = Len(df_datos.rows)
           /\ \A i \in DOMAIN filas :
                 /\ EtiquetaDeFila(i).t = "int"
                 /\ EtiquetaDeFila(i).n \in 0..(n_clusters - 1)
           /\ DOMAIN perfiles = 0..(n_clusters - 1)
           /\ \A c \in DOMAIN perfiles :
                 perfiles[c].n_comedores =
                    Cardinality({i \in DOMAIN filas : EtiquetaDeFila(i).n = c})
           /\ SumaMiembros(perfiles, DOMAIN perfiles) = Len(df_datos.rows)

\* three rows split into three clusters of one member each
C10_Witness ==
    /\ HayPerfiles
    /\ n_clusters = 3
    /\ Len(df_datos.rows) = 3
    /\ \A c \in 0..2 : resultados["perfiles_clusters"][c].n_comedores = 1

-----------------------------------------------------------------------------
(* Properties of the encoders as procedures on objects *)

PreparacionTerminada == pc \in {"preparar_datos_fin", "preparar_dataframe_fin"}

\* C11: after a call of preparar_datos or of preparar_dataframe the object
\* passed in has the same column names, in the same order, and the same
\* cell values as when it was passed.
C11_EntradaIntacta ==
    PreparacionTerminada => memoria["df"] = df_datos

\* preparar_dataframe has encoded the column at position L of the copy and
\* renamed it, and the frame passed in still has its own header
C11_Witness ==
    /\ pc = "preparar_dataframe_fin"
    /\ "PREGUNTA_1" \in memoria["df"].cols
    /\ "PREGUNTA_1" \notin memoria["df_analisis"].cols
    /\ \E i \in DOMAIN df_datos.rows :
          /\ memoria["df"].rows[i]["PREGUNTA_1"] = StrCell("DE ACUERDO")
          /\ memoria["df_analisis"].rows[i]["LIDERAZGO_GESTORA"] = IntCell(4)

-----------------------------------------------------------------------------
(* Properties of the inverse vocabulary *)

-----------------------------------------------------------------------------
(* Further properties of the aggregator and of the entry point *)

DimensionesReportadas ==
    IF HayTabla THEN {TablaReportada[k].Dimension : k \in DOMAIN TablaReportada}
    ELSE {}

\* C13: the dimensions reported by the aggregator are exactly the dimensions
\* with at least one configured question column present in the dataset, each
\* once; a dimension without a present column is left out, not reported as 0.
C13_DimensionesOmitidas ==
    "dimensiones" \in DOMAIN resultados =>
        /\ DimensionesReportadas = {d \in DOMAIN DIMENSIONES : PresentesDe(d) # {}}
        /\ HayTabla => Len(TablaReportada) = Cardinality(DimensionesReportadas)

\* Liderazgo is reported with score 0 from blank answers, and no other
\* dimension is reported
C13_Witness ==
    /\ HayTabla
    /\ DimensionesReportadas = {"Liderazgo"}
    /\ TablaReportada[1].Promedio = Rat(0, 1)
    /\ PresentesDe("Trabajo en equipo") = {}

RECURSIVE SinRepetidos(_)
SinRepetidos(s) ==
    IF s = <<>> THEN TRUE
    ELSE Head(s) \notin Range(Tail(s)) /\ SinRepetidos(Tail(s))

\* C14: once an analysis step has raised, the call never returns a result
\* and no figure is generated from it; the handler of app.py displays the
\* error message of that exception, its trace and a recommendation, and
\* nothing else; no step of the run is executed a second time.
C14_ExcepcionLlegaAlManejador ==
    /\ excepcion # "" =>
          /\ pc \in {"raised", "detenido"}
          /\ figuras = <<>>
          /\ SinRepetidos(pasos)
    /\ pc = "detenido" =>
          /\ excepcion # ""
          /\ Len(pantalla) = 3
          /\ pantalla[1].st = "error" /\ pantalla[1].e = excepcion
          /\ pantalla[2].st = "code" /\ pantalla[2].e = excepcion
          /\ pantalla[3].st = "info"
    /\ pc \notin {"detenido"} => pantalla = <<>>

\* the NameError of the third step has been displayed with its trace, after
\* the first two steps had run
C14_Witness ==
    /\ pc = "detenido"
    /\ excepcion = "NameError"
    /\ pasos = <<"descriptivo", "dimensiones">>
    /\ Len(pantalla) = 3
    /\ figuras = <<>>

-----------------------------------------------------------------------------
(* Properties of the role matching *)

\* the row has a role text that, trimmed and in upper case, contains rol
CuentaComo(row, rol) ==
    /\ row["ROL"].t # "nan"
    /\ Contains(Upper(Strip(row["ROL"].s)), rol)

FilasDeRol(rol) == {i \in DOMAIN df_prep.rows : CuentaComo(df_prep.rows[i], rol)}

ComedoresDeFilas(filas) == {df_prep.rows[i]["NOMBRE_COMEDOR"] : i \in filas}

ComedoresConRol(rol) == ComedoresDeFilas(FilasDeRol(rol))

\* C19: the entities that get a per-entity analysis are exactly those with
\* at least one row whose normalized role contains the principal label and
\* at least one row whose normalized role contains the auxiliary label; an
\* entity with only one of the two roles gets none.
C19_ComedoresConAmbosRoles ==
    HayAnalisisComedores =>
        LET analizados == DOMAIN resultados["analisis_comedores"]
        IN /\ analizados
                 = ComedoresConRol(rol_principal) \cap ComedoresConRol(rol_auxiliar)
           /\ resultados["comedores_con_ambos_roles"] = Cardinality(analizados)
           /\ \A c \in analizados :
                 \A p \in Range(preguntas_liderazgo) :
                    /\ AnalisisDe(c, p).valores_principal # <<>>
                    /\ AnalisisDe(c, p).valores_auxiliar # <<>>

\* Comedor A has both roles and is analysed; Comedor B has a principal but
\* no auxiliary and is not
C19_Witness ==
    /\ HayAnalisisComedores
    /\ DOMAIN resultados["analisis_comedores"] = {StrCell("Comedor A")}
    /\ StrCell("Comedor B") \in ComedoresConRol(rol_principal)
    /\ StrCell("Comedor B") \notin ComedoresConRol(rol_auxiliar)
    /\ resultados["comedores_con_principal"] = 2

RECURSIVE SumaDeFilas(_, _)
SumaDeFilas(filas, col) ==
    IF filas = {} THEN 0
    ELSE LET i == CHOOSE x \in filas : TRUE
         IN df_prep.rows[i][col].n + SumaDeFilas(filas \ {i}, col)

\* prom is the mean of column col over the given rows (NaN over no row)
EsPromedioDe(prom, filas, col) ==
    IF filas = {} THEN prom.den = 0
    ELSE /\ prom.den > 0
         /\ prom.num * Cardinality(filas) = prom.den * SumaDeFilas(filas, col)

\* C20: a row is counted under a role exactly when its role text, trimmed
\* and in upper case, contains the label of that role: the entity counts,
\* the overall averages and the per-entity value lists of each role are
\* those of exactly these rows, so rows without a role enter neither role
\* and case or surrounding blanks do not change the role of a row.
C20_FilasPorRol ==
    HayAnalisisComedores =>
        LET filas_principal == FilasDeRol(rol_principal)
            filas_auxiliar == FilasDeRol(rol_auxiliar)
        IN /\ resultados["comedores_con_principal"]
                 = Cardinality(ComedoresDeFilas(filas_principal))
           /\ resultados["comedores_con_auxiliar"]
                 = Cardinality(ComedoresDeFilas(filas_auxiliar))
           /\ \A p \in Range(preguntas_liderazgo) :
                 /\ EsPromedioDe(resultados["analisis_global"][p].promedio_principal,
                                 filas_principal, p)
                 /\ EsPromedioDe(resultados["analisis_global"][p].promedio_auxiliar,
                                 filas_auxiliar, p)
           /\ \A c \in DOMAIN resultados["analisis_comedores"] :
                 \A p \in Range(preguntas_liderazgo) :
                    /\ Len(AnalisisDe(c, p).valores_principal)
                          = Cardinality({i \in filas_principal :
                                           df_prep.rows[i]["NOMBRE_COMEDOR"] = c})
                    /\ Len(AnalisisDe(c, p).valores_auxiliar)
                          = Cardinality({i \in filas_auxiliar :
                                           df_prep.rows[i]["NOMBRE_COMEDOR"] = c})

\* the only principal is written in lower case between blanks and is
\* counted; a row without a role and a row whose auxiliary label has a
\* single blank are counted under neither role
C20_Witness ==
    /\ HayAnalisisComedores
    /\ \E i \in DOMAIN df_prep.rows : df_prep.rows[i]["ROL"] = NaN
    /\ \E i \in DOMAIN df_prep.rows :
          df_prep.rows[i]["ROL"] = TxtCell(TextoAuxiliarUnBlanco)
    /\ \E i \in DOMAIN df_prep.rows :
          df_prep.rows[i]["ROL"] = TxtCell(TextoPrincipalMinusculas)
    /\ \A i \in DOMAIN df_prep.rows :
          df_prep.rows[i]["ROL"] \in {NaN, TxtCell(TextoAuxiliarUnBlanco),
                                      TxtCell(TextoPrincipalMinusculas)}
    /\ resultados["comedores_con_principal"] = 1
    /\ resultados["comedores_con_auxiliar"] = 0
    /\ resultados["analisis_global"]["2.1_LIDERAZGO_RESPESTUOSO"].promedio_principal
          = Rat(3, 1)

-----------------------------------------------------------------------------
(* Properties of the column-letter conversion *)

\* position of a capital letter in the alphabet, from 0
PosicionLetra(c) == (CHOOSE k \in DOMAIN Mayusculas : Mayusculas[k] = c) - 1

EtiquetasDeColumna ==
    {<<a>> : a \in Range(Mayusculas)}
    \cup {<<a, b>> : a \in Range(Mayusculas), b \in Range(Mayusculas)}

\* the label that follows in spreadsheet order: B after A, AA after Z,
\* BA after AZ
SiguienteEtiqueta(letra) ==
    IF Len(letra) = 1
    THEN IF letra[1] = "Z" THEN <<"A", "A">>
         ELSE <<Mayusculas[PosicionLetra(letra[1]) + 2]>>
    ELSE IF letra[2] = "Z" THEN <<Mayusculas[PosicionLetra(letra[1]) + 2], "A">>
         ELSE <<letra[1], Mayusculas[PosicionLetra(letra[2]) + 2]>>

\* C15: a one-letter label L gives its position in the alphabet counted
\* from 0, a two-letter label XY gives (position of X + 1) * 26 + position
\* of Y, the label that follows in spreadsheet order gives the next index
\* (A = 0, Z = 25, AA = 26, AB = 27), no other label of one or two letters
\* gives the same index, and a label of any other length gives -1.
C15_LetraAIndice ==
    \A ll \in llamadas :
        /\ Len(ll.letra) = 1 => ll.indice = PosicionLetra(ll.letra[1])
        /\ Len(ll.letra) = 2 =>
              ll.indice = (PosicionLetra(ll.letra[1]) + 1) * 26
                            + PosicionLetra(ll.letra[2])
        /\ Len(ll.letra) \notin {1, 2} => ll.indice = -1
        /\ Len(ll.letra) \in {1, 2} =>
              /\ ll.indice \in 0..701
              /\ ll.letra # <<"Z", "Z">> =>
                    obtener_letra_a_indice(SiguienteEtiqueta(ll.letra)) = ll.indice + 1
              /\ \A otra \in EtiquetasDeColumna :
                    obtener_letra_a_indice(otra) = ll.indice => otra = ll.letra
        /\ ll.letra = <<"A">> => ll.indice = 0
        /\ ll.letra = <<"Z">> => ll.indice = 25
        /\ ll.letra = <<"A", "A">> => ll.indice = 26
        /\ ll.letra = <<"A", "B">> => ll.indice = 27

\* the last column letter of the configuration, AK, has been converted
C15_Witness ==
    llamadas = {[letra |-> <<"A", "K">>, indice |-> 36]}

-----------------------------------------------------------------------------
(* Properties of the five-band scale *)

RangoBandaUtils(b) == CASE b = "Muy Desfavorable" -> 0
                        [] b = "Desfavorable" -> 1
                        [] b = "Neutral" -> 2
                        [] b = "Favorable" -> 3
                        [] b = "Muy Favorable" -> 4
                        [] OTHER -> -1

\* the number of boundaries 1.5, 2.5, 3.5, 4.5 that the score has reached
LimitesAlcanzados(v) ==
    Cardinality({k \in {3, 5, 7, 9} : 2 * v.num >= k * v.den})

\* C16: every score gets one of the five bands, the bands change at 1.5,
\* 2.5, 3.5 and 4.5, a score on a boundary gets the higher band, and a
\* higher score never gets a worse band.
C16_CincoBandas ==
    /\ \A e \in interpretados :
          /\ RangoBandaUtils(e.banda) >= 0
          /\ RangoBandaUtils(e.banda) = LimitesAlcanzados(e.valor)
    /\ \A e1, e2 \in interpretados :
          e1.valor.num * e2.valor.den <= e2.valor.num * e1.valor.den
             => RangoBandaUtils(e1.banda) <= RangoBandaUtils(e2.banda)

\* the boundary scores 3.5 and 4.5 have been classified
C16_Witness ==
    {[valor |-> Rat(7, 2), banda |-> "Favorable"],
     [valor |-> Rat(9, 2), banda |-> "Muy Favorable"]} = interpretados

-----------------------------------------------------------------------------
(* Further properties of the cluster profiler *)

ProfilerEjecutado == pc \in {"clusters_fin", "raised"}

\* C17: in the prepared frame every cell of every recognized question
\* column is an integer that is 0 or one of 1..3, and the matrix that
\* analisis_clusters builds from it for standardization and clustering has
\* no missing cell.
C17_MatrizCodificada ==
    LET X == MatrizX(df_prep)
    IN /\ \A i \in DOMAIN df_prep.rows :
             \A c \in df_prep.cols \cap TodasPreguntasConfig :
                /\ df_prep.rows[i][c].t = "int"
                /\ df_prep.rows[i][c].n \in 0..3
       /\ \A i \in DOMAIN X : \A j \in DOMAIN X[i] : ~IsNaN(X[i][j])

\* clustering has run on a frame whose first respondent left an answer
\* blank; the blank entered the matrix as 0
C17_Witness ==
    /\ HayPerfiles
    /\ \E j \in DOMAIN TodasPreguntas(df_prep) :
          /\ df_datos.rows[1][TodasPreguntas(df_prep)[j]] = NaN
          /\ df_prep.rows[1][TodasPreguntas(df_prep)[j]] = IntCell(0)
          /\ MatrizX(df_prep)[1][j] = Rat(0, 1)
    /\ \E j \in DOMAIN TodasPreguntas(df_prep) :
          MatrizX(df_prep)[2][j] = Rat(3, 1)

-----------------------------------------------------------------------------
(* Properties of the cluster profiles *)

\* the rows of the prepared frame that carry the label of the cluster
MiembrosDe(c) == {i \in DOMAIN df_prep.rows : EtiquetaDeFila(i).n = c}

RECURSIVE SumaDeMiembros(_, _)
SumaDeMiembros(filas, cols) ==
    IF filas = {} THEN 0
    ELSE LET i == CHOOSE x \in filas : TRUE
         IN SumaFila(df_prep.rows[i], cols) + SumaDeMiembros(filas \ {i}, cols)

\* prom is the mean, over the members only, of the row means of the
\* present columns of dimension d (NaN for a cluster without members)
EsPromedioDeMiembros(prom, miembros, d) ==
    LET cols == Range(DIMENSIONES[d]) \cap df_prep.cols
    IN IF miembros = {} THEN prom.den = 0
       ELSE /\ prom.den > 0
            /\ prom.num * Cardinality(miembros) * Cardinality(cols)
                  = prom.den * SumaDeMiembros(miembros, cols)

DimensionesDe(items) == {items[j].Dimension : j \in DOMAIN items}

\* the items are distinct dimensions with their score of the profile, from
\* the highest score to the lowest
ItemsEnOrden(items, promedios) ==
    /\ Cardinality(DimensionesDe(items)) = Len(items)
    /\ \A j \in DOMAIN items :
          /\ items[j].Dimension \in DOMAIN promedios
          /\ items[j].Promedio = promedios[items[j].Dimension]
    /\ \A j \in 1..(Len(items) - 1) : ~RLt(items[j].Promedio, items[j + 1].Promedio)

\* no dimension outside the items scores higher than one of them
SonLasMasAltas(items, promedios) ==
    \A d \in DimensionesDe(items) : \A e \in DOMAIN promedios \ DimensionesDe(items) :
        RLe(promedios[e], promedios[d])

\* no dimension outside the items scores lower than one of them
SonLasMasBajas(items, promedios) ==
    \A d \in DimensionesDe(items) : \A e \in DOMAIN promedios \ DimensionesDe(items) :
        RLe(promedios[d], promedios[e])

ListaDeMiembros(perfil) ==
    /\ "comedores" \in DOMAIN perfil <=> "NOMBRE_COMEDOR" \in df_datos.cols
    /\ "comedores" \in DOMAIN perfil => Len(perfil.comedores) = perfil.n_comedores

\* C21 as stated: for every cluster, fortalezas holds the three dimensions
\* with the highest mean over the members of the cluster, in descending
\* order of score, debilidades holds the three dimensions with the lowest
\* mean, and the member list has as many entries as the member count.
C21_TresMejoresYTresPeores ==
    HayPerfiles =>
        \A c \in DOMAIN resultados["perfiles_clusters"] :
            LET perfil == resultados["perfiles_clusters"][c]
                promedios == perfil.promedios_dimensiones
            IN /\ \A d \in DOMAIN promedios :
                     EsPromedioDeMiembros(promedios[d], MiembrosDe(c), d)
               /\ Len(perfil.fortalezas) = 3
               /\ Len(perfil.debilidades) = 3
               /\ ItemsEnOrden(perfil.fortalezas, promedios)
               /\ ItemsEnOrden(perfil.debilidades, promedios)
               /\ SonLasMasAltas(perfil.fortalezas, promedios)
               /\ SonLasMasBajas(perfil.debilidades, promedios)
               /\ ListaDeMiembros(perfil)

\* C21, amended: the scores of a profile are means over the members of the
\* cluster only; fortalezas and debilidades hold min(3, n) dimensions each,
\* n being the number of dimensions with a present column, listed with
\* their score from the highest to the lowest; in a cluster with members
\* fortalezas are dimensions of highest score and debilidades dimensions of
\* lowest score; the member list exists exactly when the dataset names the
\* kitchens and then has as many entries as the member count.
C21_HastaTresMejoresYPeores ==
    HayPerfiles =>
        \A c \in DOMAIN resultados["perfiles_clusters"] :
            LET perfil == resultados["perfiles_clusters"][c]
                promedios == perfil.promedios_dimensiones
                n == Cardinality(DOMAIN promedios)
            IN /\ DOMAIN promedios = DimensionesPresentes(df_prep)
               /\ \A d \in DOMAIN promedios :
                     EsPromedioDeMiembros(promedios[d], MiembrosDe(c), d)
               /\ Len(perfil.fortalezas) = Min(3, n)
               /\ Len(perfil.debilidades) = Min(3, n)
               /\ ItemsEnOrden(perfil.fortalezas, promedios)
               /\ ItemsEnOrden(perfil.debilidades, promedios)
               /\ MiembrosDe(c) # {} =>
                     /\ SonLasMasAltas(perfil.fortalezas, promedios)
                     /\ SonLasMasBajas(perfil.debilidades, promedios)
               /\ ListaDeMiembros(perfil)

\* a cluster of two respondents of a dataset that covers the seven
\* dimensions: three strengths and three other dimensions as weaknesses
C21_Witness ==
    /\ HayPerfiles
    /\ Cardinality(DOMAIN resultados["perfiles_clusters"][0].promedios_dimensiones) = 7
    /\ resultados["perfiles_clusters"][0].n_comedores = 2
    /\ "comedores" \in DOMAIN resultados["perfiles_clusters"][0]
    /\ Len(resultados["perfiles_clusters"][0].comedores) = 2
    /\ resultados["perfiles_clusters"][0].fortalezas
          = <<[Dimension |-> "Valoración", Promedio |-> Rat(5, 2)],
              [Dimension |-> "Bienestar", Promedio |-> Rat(5, 2)],
              [Dimension |-> "Trabajo en equipo", Promedio |-> Rat(2, 1)]>>
    /\ resultados["perfiles_clusters"][0].debilidades
          = <<[Dimension |-> "Recursos y condiciones", Promedio |-> Rat(2, 1)],
              [Dimension |-> "Liderazgo", Promedio |-> Rat(3, 2)],
              [Dimension |-> "Compromiso", Promedio |-> Rat(1, 1)]>>

\* C27: in every cluster profile, whatever dimensions have columns in the
\* dataset, no dimension is both among the strengths (fortalezas) and among
\* the weaknesses (debilidades) of the cluster.
C27_FortalezasYDebilidadesDisjuntas ==
    HayPerfiles =>
        \A c \in DOMAIN resultados["perfiles_clusters"] :
            DimensionesDe(resultados["perfiles_clusters"][c].fortalezas)
               \cap DimensionesDe(resultados["perfiles_clusters"][c].debilidades) = {}

-----------------------------------------------------------------------------
(* Properties of the correlation page *)

HayTablaCorrelaciones == pc = "correlacion_fin" /\ "df_todas" \in DOMAIN resultados

\* the rows of the table that satisfy the test, in the order shown
FilasDeTipo(tabla, positivas) ==
    LET es(f) == IF positivas THEN RLt(Rat(0, 1), f.Coeficiente)
                 ELSE RLt(f.Coeficiente, Rat(0, 1))
    IN SelectSeq(tabla, es)

ParDe(f) == {f.Variable1, f.Variable2}

\* C22: the pairs with a positive coefficient are shown at most 10, from
\* the highest coefficient to the lowest, and those with a negative
\* coefficient at most 10, from the lowest to the highest; no unordered
\* pair of questions is shown twice and a pair is made of two questions.
C22_ParesPositivosYNegativos ==
    HayTablaCorrelaciones =>
        LET tabla == resultados["df_todas"]
            positivas == FilasDeTipo(tabla, TRUE)
            negativas == FilasDeTipo(tabla, FALSE)
        IN /\ Len(positivas) <= 10
           /\ Len(negativas) <= 10
           /\ \A k \in 1..(Len(positivas) - 1) :
                 RLe(positivas[k + 1].Coeficiente, positivas[k].Coeficiente)
           /\ \A k \in 1..(Len(negativas) - 1) :
                 RLe(negativas[k].Coeficiente, negativas[k + 1].Coeficiente)
           /\ \A k \in DOMAIN tabla : Cardinality(ParDe(tabla[k])) = 2
           /\ \A k, l \in DOMAIN tabla : ParDe(tabla[k]) = ParDe(tabla[l]) => k = l
-----------------------------------------------------------------------------
(* Properties of the page script *)

TextosEnPantalla == {pantalla[i].texto : i \in DOMAIN pantalla}

-----------------------------------------------------------------------------
(* Properties of preparar_dataframe on sheets with named and positional    *)
(* columns                                                                 *)

NombresConfigurados == {GRUPOS_COLUMNAS[k].nombre : k \in DOMAIN GRUPOS_COLUMNAS}

CodificadaUnaVez(celda) == AstypeInt(FillNa(MapDict(celda, config_MAPEO_RESPUESTAS), 0))

\* C24: after preparar_dataframe, every column of the sheet that bears a
\* configured question name is still a column of the result under that name
\* and holds the encoding of its original values (no positional fallback for
\* another name has encoded it again or renamed it).
C24_ColumnaPorNombreIntacta ==
    pc = "preparar_dataframe_fin" =>
        \A nombre \in NombresConfigurados \cap df_datos.cols :
            /\ nombre \in df_prep.cols
            /\ \A i \in DOMAIN df_datos.rows :
                  df_prep.rows[i][nombre] = CodificadaUnaVez(df_datos.rows[i][nombre])

-----------------------------------------------------------------------------
(* Properties of the counts of the role comparison *)

\* C25: in every successful result of the role comparison,
\* comedores_con_ambos_roles equals the number of entries of
\* analisis_comedores and the sum of the three counts of
\* resumen_concordancia, and it is at most the smaller of
\* comedores_con_principal and comedores_con_auxiliar, whose larger is at
\* most total_comedores.
C25_ConteosConsistentes ==
    (pc = "rol_fin" /\ "error" \notin DOMAIN resultados) =>
        LET r == resultados
            ambos == r["comedores_con_ambos_roles"]
            p == r["comedores_con_principal"]
            a == r["comedores_con_auxiliar"]
            resumen == r["resumen_concordancia"]
        IN /\ ambos = Cardinality(DOMAIN r["analisis_comedores"])
           /\ ambos = resumen["Alta"] + resumen["Media"] + resumen["Baja"]
           /\ ambos <= Min(p, a)
           /\ Min(p, a) <= Max(p, a)
           /\ Max(p, a) <= r["total_comedores"]

\* a comparison of two entities of which one has both roles
C25_Witness ==
    /\ pc = "rol_fin"
    /\ "error" \notin DOMAIN resultados
    /\ resultados["total_comedores"] = 2
    /\ resultados["comedores_con_principal"] = 2
    /\ resultados["comedores_con_auxiliar"] = 1
    /\ resultados["comedores_con_ambos_roles"] = 1
    /\ Cardinality(DOMAIN resultados["analisis_comedores"]) = 1

-----------------------------------------------------------------------------
(* Properties of the clustering page *)

SeAgrupo == pc \in {"agrupado", "conglomerados_fin"} /\ n_clusters # 0

\* C26: with fewer than 3 rows the page shows an error and no clustering is
\* performed, and whenever clustering is performed the cluster count used
\* is at least 2 and at most min(10, number of rows - 1), with or without
\* the slider.
C26_ConteoDentroDeLimites ==
    /\ (pc = "conglomerados_fin" /\ Len(df_datos.rows) < 3) =>
          /\ ~SeAgrupo
          /\ \E i \in DOMAIN pantalla : pantalla[i].st = "error"
    /\ SeAgrupo =>
          /\ n_clusters >= 2
          /\ n_clusters <= Min(10, Len(df_datos.rows) - 1)

-----------------------------------------------------------------------------
(* Properties of the encoder applied twice *)

\* C28: preparar_datos applied to an already prepared dataset returns the
\* same encoded value in every cell of every question column.
C28_CodificacionIdempotente ==
    (pc = "preparar_datos_otra_vez_fin" /\ ~df_prep.none) =>
        LET otra_vez == resultados["datos_preparados"]
        IN \A i \in DOMAIN df_prep.rows :
              \A c \in df_prep.cols \cap TodasPreguntasConfig :
                 otra_vez.rows[i][c] = df_prep.rows[i][c]

-----------------------------------------------------------------------------
(* Properties of the user performance analysis *)

HayUsuario == \E i \in DOMAIN df_datos.rows :
                 df_datos.rows[i]["USER"].t # "nan" /\ df_datos.rows[i]["USER"].s # <<>>

\* C29: when the USER column is absent or no row has a non-empty USER the
\* result has the single key 'error'; otherwise it has no 'error' key and
\* exactly one of 'eficiencia_por_usuario' and 'error_fecha'.
C29_FormaDelResultado ==
    pc = "usuarios_fin" =>
        IF "USER" \notin df_datos.cols \/ ~HayUsuario
        THEN DOMAIN resultados = {"error"}
        ELSE /\ "error" \notin DOMAIN resultados
             /\ ("eficiencia_por_usuario" \in DOMAIN resultados)
                   # ("error_fecha" \in DOMAIN resultados)

\* two records of one user on two days, counted after trimming and upper
\* case: one user, two days of visit, one record per day
C29_Witness ==
    /\ pc = "usuarios_fin"
    /\ "eficiencia_por_usuario" \in DOMAIN resultados
    /\ "error_fecha" \notin DOMAIN resultados
    /\ resultados["total_usuarios"] = 1
    /\ resultados["total_registros"] = 2
    /\ <<"A", "N", "A">> \in DOMAIN resultados["eficiencia_por_usuario"]
    /\ resultados["eficiencia_por_usuario"][<<"A", "N", "A">>] =
          [DiasDeVisita |-> 2, CantidadDeRegistros |-> 2,
           PromedioRegistrosPorDia |-> Rat(1, 1)]

-----------------------------------------------------------------------------
(* Properties of the best and worst dimension *)

ClavesMejorPeor == {"promedios_dimensiones", "dimension_mejor", "promedio_mejor",
                    "dimension_peor", "promedio_peor"}

\* C30: when at least one dimension has a question column in the frame,
\* dimension_mejor is a reported dimension whose score is the maximum and
\* dimension_peor one whose score is the minimum of the reported scores
\* (so promedio_mejor >= promedio_peor), and every reported dimension's
\* interpretation is interpretar_promedio of its score; when no dimension
\* has a column, none of these keys is in the result.
C30_MejorYPeorDimension ==
    pc = "por_dimensiones_fin" =>
        LET r == resultados["dimensiones"]
            presentes == {d \in DOMAIN DIMENSIONES :
                             DIMENSIONES[d] # <<>> /\
                             \E k \in DOMAIN DIMENSIONES[d] : DIMENSIONES[d][k] \in df_prep.cols}
        IN IF presentes = {}
           THEN DOMAIN r \cap ClavesMejorPeor = {}
           ELSE LET tabla == r["promedios_dimensiones"]
                    fila(d) == CHOOSE k \in DOMAIN tabla : tabla[k].Dimension = d
                IN /\ {tabla[k].Dimension : k \in DOMAIN tabla} = presentes
                   /\ Len(tabla) = Cardinality(presentes)
                   /\ r["dimension_mejor"] \in presentes
                   /\ r["dimension_peor"] \in presentes
                   /\ r["promedio_mejor"] = tabla[fila(r["dimension_mejor"])].Promedio
                   /\ r["promedio_peor"] = tabla[fila(r["dimension_peor"])].Promedio
                   /\ \A k \in DOMAIN tabla :
                         /\ RLe(tabla[k].Promedio, r["promedio_mejor"])
                         /\ RLe(r["promedio_peor"], tabla[k].Promedio)
                         /\ tabla[k].Interpretacion = interpretar_promedio(tabla[k].Promedio)
                   /\ RLe(r["promedio_peor"], r["promedio_mejor"])

\* seven reported dimensions with different best and worst scores
C30_Witness ==
    /\ pc = "por_dimensiones_fin"
    /\ "promedios_dimensiones" \in DOMAIN resultados["dimensiones"]
    /\ Len(resultados["dimensiones"]["promedios_dimensiones"]) = 7
    /\ resultados["dimensiones"]["dimension_mejor"] = "Valoración"
    /\ resultados["dimensiones"]["promedio_mejor"] = Rat(5, 2)
    /\ resultados["dimensiones"]["dimension_peor"] = "Compromiso"
    /\ resultados["dimensiones"]["promedio_peor"] = Rat(1, 1)

====
